---- MODULE Spec2Model ----
(***************************************************************************)
(* State-machine model of the tcproxy reactor (src/tcproxy.cpp):           *)
(* descriptor slots, the two interest sets, the routing table, the         *)
(* select() dispatch loop and the handlers OnConnect / OnRead / OnWrite /  *)
(* OnCommand, together with the kernel-side facts the handlers depend on   *)
(* (the process descriptor table and the command FIFO).                    *)
(*                                                                         *)
(* Every handler is one atomic step: the program is single threaded and    *)
(* a handler runs to completion before the dispatch loop continues.        *)
(***************************************************************************)
EXTENDS Integers, Sequences, FiniteSets, TLC

(***************************************************************************)
(* Sizes.  FD_SETSIZE (1024) and RW_BUFSIZE (512) are scaled down; the     *)
(* descriptor numbering 0..2 std streams, 3 lock file, then FIFO, listener *)
(* and pairs is the one the program obtains from the kernel.               *)
(***************************************************************************)
FD_SETSIZE == 10
RW_BUFSIZE == 3
NOFILE     == FD_SETSIZE + 2     \* descriptors the kernel will hand out
MaxReady   == 3                  \* most descriptors one select() call reports
MaxAccept  == 3                  \* most connections a run accepts
MaxData    == 4                  \* most payload bytes a run reads
MaxCmd     == 2                  \* most operator commands a run receives

NoFd == -1
NoConn == [family |-> "none", a |-> NoFd, port |-> 0]   \* no connect() issued

Min(S) == CHOOSE x \in S : \A y \in S : x <= y

(***************************************************************************)
(* Addresses.  A binary address is [family, a]; inet_ntop renders it as    *)
(* text and inet_aton parses dotted IPv4 text only.                        *)
(***************************************************************************)
V4Text == <<"10.0.0.1", "10.0.0.2", "10.0.0.3">>
V6Text == <<"fd00::1">>

inet_ntop(addr) ==
    IF addr.family = "AF_INET" THEN V4Text[addr.a] ELSE V6Text[addr.a]

\* inet_aton: 0 stands for "parse failed" (the caller's zeroed sin_addr,
\* i.e. 0.0.0.0, is left untouched)
inet_aton(text) ==
    IF \E a \in 1..Len(V4Text) : V4Text[a] = text
    THEN CHOOSE a \in 1..Len(V4Text) : V4Text[a] = text
    ELSE 0

V4(a) == [family |-> "AF_INET",  a |-> a]
V6(a) == [family |-> "AF_INET6", a |-> a]

(***************************************************************************)
(* The resolver: host name -> getaddrinfo() result.  "" is the empty       *)
(* string, "nohost" does not resolve, "unix" resolves to an address of a   *)
(* family that is neither IPv4 nor IPv6.                                   *)
(***************************************************************************)
getaddrinfo(host) ==
    CASE host = "a"    -> [status |-> 0, list |-> << V4(1) >>]
      [] host = "b"    -> [status |-> 0, list |-> << V4(2) >>]
      [] host = "ab"   -> [status |-> 0, list |-> << V4(1), V4(2) >>]
      [] host = "aa"   -> [status |-> 0, list |-> << V4(1), V4(1) >>]
      [] host = "six"  -> [status |-> 0, list |-> << V6(1), V4(3) >>]
      [] host = "unix" -> [status |-> 0, list |-> << [family |-> "AF_UNIX", a |-> 1] >>]
      [] OTHER         -> [status |-> 1, list |-> << >>]

(***************************************************************************)
(* Descriptor slot (struct Callback) and route (struct Route).             *)
(***************************************************************************)
ZeroBuf == [k \in 1..RW_BUFSIZE |-> 0]

Callback ==
    [read_fn |-> "null", write_fn |-> "null", peer_fd |-> NoFd,
     buf |-> ZeroBuf, len |-> 0]

Route(sfam, sip, tfam, tip, tport) ==
    [source_fd |-> NoFd,
     source_ip_family |-> sfam, source_ip |-> sip,
     target_ip_family |-> tfam, target_ip |-> tip, target_port |-> tport]

Slots == 0..(FD_SETSIZE - 1)

\* bytes a connection's remote end sends on descriptor fd: k-th byte
Byte(fd, k) == 10 * fd + k

(***************************************************************************)
(* Route lookup.  Both return the index of the first match, 0 for nullptr. *)
(***************************************************************************)
\* lookup that compares against the head of the list only
GetRoute_headOnly(rt, source_ip) ==
    IF rt # << >> /\ rt[1].source_ip = source_ip THEN 1 ELSE 0

GetRoute(rt, source_ip) ==
    IF \E k \in 1..Len(rt) : rt[k].source_ip = source_ip
    THEN Min({k \in 1..Len(rt) : rt[k].source_ip = source_ip})
    ELSE 0

GetRouteFd(rt, source_fd) ==
    IF \E k \in 1..Len(rt) : rt[k].source_fd = source_fd
    THEN Min({k \in 1..Len(rt) : rt[k].source_fd = source_fd})
    ELSE 0

(***************************************************************************)
(* Operators on the program state s, a record with the fields              *)
(*   cb, rfds, wfds, route, keep_running   (members of CTcpProxy)          *)
(*   open, crashed                         (kernel fd table, abort())      *)
(*   rd, wr, conn, matched, dropped,                                       *)
(*   evicted, asserted, fresh              (history, see VARIABLES)        *)
(*   ran                                   (history: the commands the      *)
(*                                          current handler has executed)  *)
(***************************************************************************)

\* CallbackRemove that forgets FD_CLR(fd, &wfds)
CallbackRemove_noWclr(s, fd) ==
    [s EXCEPT !.rfds = @ \ {fd},
              !.cb[fd] = Callback,
              !.dropped = IF s.cb[fd].read_fn = "OnRead" THEN @ + s.cb[fd].len ELSE @,
              !.rd[fd] = 0,
              !.wr[fd] = << >>,
              !.conn[fd] = NoConn,
              !.matched[fd] = ""]

\* CallbackRemove that clears the handlers and the peer and leaves the
\* buffer and its length
CallbackRemove_keepBuf(s, fd) ==
    [s EXCEPT !.rfds = @ \ {fd},
              !.wfds = @ \ {fd},
              !.cb[fd].read_fn = "null",
              !.cb[fd].write_fn = "null",
              !.cb[fd].peer_fd = NoFd,
              !.rd[fd] = 0,
              !.wr[fd] = << >>,
              !.conn[fd] = NoConn,
              !.matched[fd] = ""]

\* CallbackRemove that clears the descriptor from both sets and leaves the
\* slot as it is
CallbackRemove_keepSlot(s, fd) ==
    [s EXCEPT !.rfds = @ \ {fd},
              !.wfds = @ \ {fd}]

\* CallbackRemove that forgets FD_CLR(fd, &rfds)
CallbackRemove_noRclr(s, fd) ==
    [s EXCEPT !.wfds = @ \ {fd},
              !.cb[fd] = Callback,
              !.dropped = IF s.cb[fd].read_fn = "OnRead" THEN @ + s.cb[fd].len ELSE @,
              !.rd[fd] = 0,
              !.wr[fd] = << >>,
              !.conn[fd] = NoConn,
              !.matched[fd] = ""]

\* CallbackRemove: FD_CLR both sets and re-construct the slot in place.
\* History: the bytes still staged in a forwarding slot are discarded here.
CallbackRemove(s, fd) ==
    [s EXCEPT !.rfds = @ \ {fd},
              !.wfds = @ \ {fd},
              !.cb[fd] = Callback,
              !.dropped = IF s.cb[fd].read_fn = "OnRead" THEN @ + s.cb[fd].len ELSE @,
              !.rd[fd] = 0,
              !.wr[fd] = << >>,
              !.conn[fd] = NoConn,
              !.matched[fd] = ""]

\* CallbackAdd: the two asserts abort the process when they fail.
CallbackAdd(s, fd, peer_fd, read_fn, write_fn) ==
    IF ~(fd >= 0 /\ fd < FD_SETSIZE)
    THEN [s EXCEPT !.crashed = TRUE, !.asserted = "CallbackAdd"]
    ELSE IF ~(s.cb[fd].read_fn = "null" /\ s.cb[fd].write_fn = "null"
              /\ s.cb[fd].peer_fd < 0 /\ s.cb[fd].len = 0)
    THEN [s EXCEPT !.crashed = TRUE, !.asserted = "CallbackAdd"]
    ELSE [s EXCEPT !.cb[fd] = [Callback EXCEPT !.read_fn = read_fn,
                                               !.write_fn = write_fn,
                                               !.peer_fd = peer_fd],
                   !.rfds = IF read_fn # "null" THEN @ \cup {fd} ELSE @,
                   !.wfds = IF write_fn # "null" THEN @ \cup {fd} ELSE @,
                   !.fresh = @ \cup {fd}]

\* CloseSock iteration that leaves the routing table alone
CloseOne_keepRoute(s, fd) ==
    IF fd < 0 THEN s
    ELSE LET s1 == [s EXCEPT !.open = @ \ {fd}]
             s2 == IF fd < FD_SETSIZE THEN CallbackRemove(s1, fd) ELSE s1
         IN  IF ~(fd < FD_SETSIZE)
             THEN [s2 EXCEPT !.crashed = TRUE, !.asserted = "GetRoute"]
             ELSE s2

\* One iteration of the loop in CloseSock.
CloseOne(s, fd) ==
    IF fd < 0 THEN s
    ELSE LET s1 == [s EXCEPT !.open = @ \ {fd}]
             s2 == IF fd < FD_SETSIZE THEN CallbackRemove(s1, fd) ELSE s1
         IN  IF ~(fd < FD_SETSIZE)
             \* assert in GetRoute(int)
             THEN [s2 EXCEPT !.crashed = TRUE, !.asserted = "GetRoute"]
             ELSE LET k == GetRouteFd(s2.route, fd)
                  IN  IF k = 0 THEN s2
                      ELSE [s2 EXCEPT !.route[k].source_fd = NoFd]

\* CloseSock that handles only its first argument
CloseSock_firstOnly(s, fd1, fd2) == CloseOne(s, fd1)

\* CloseSock that updates the routing table for its first argument only
CloseSock_routeFirst(s, fd1, fd2) ==
    LET s1 == CloseOne(s, fd1)
    IN  IF fd1 >= FD_SETSIZE THEN s1 ELSE CloseOne_keepRoute(s1, fd2)

\* the loop over {fd1, fd2}; it is cut short when the assert in GetRoute(int)
\* aborts the process on fd1
CloseSock(s, fd1, fd2) ==
    LET s1 == CloseOne(s, fd1)
    IN  IF fd1 >= FD_SETSIZE THEN s1 ELSE CloseOne(s1, fd2)

(***************************************************************************)
(* AddRoute(source_host, target_host, target_port)                         *)
(***************************************************************************)
IsInet(addr) == addr.family \in {"AF_INET", "AF_INET6"}

\* choice of target address that prefers the first AF_INET entry
FirstInet_v4First(list) ==
    IF \E k \in 1..Len(list) : list[k].family = "AF_INET"
    THEN Min({k \in 1..Len(list) : list[k].family = "AF_INET"})
    ELSE IF \E k \in 1..Len(list) : IsInet(list[k])
    THEN Min({k \in 1..Len(list) : IsInet(list[k])})
    ELSE 0

\* index of the first AF_INET or AF_INET6 entry of a getaddrinfo list, 0 if none
FirstInet(list) ==
    IF \E k \in 1..Len(list) : IsInet(list[k])
    THEN Min({k \in 1..Len(list) : IsInet(list[k])})
    ELSE 0

\* an AddRoute that evicts the pair of a bound first route before it
\* inserts a route for a new source_ip
AddOne_evictFirst(s, new_route) ==
    IF s.route = << >> THEN [s EXCEPT !.route = << new_route >>]
    ELSE LET k == GetRoute(s.route, new_route.source_ip)
         IN  IF k = 0
             THEN IF s.route[1].source_fd < 0
                  THEN [s EXCEPT !.route = << new_route >> \o @]
                  ELSE [CloseSock(s, s.route[1].source_fd,
                                  s.cb[s.route[1].source_fd].peer_fd)
                           EXCEPT !.route = << new_route >> \o @]
             ELSE [s EXCEPT !.route[k].target_ip = new_route.target_ip,
                            !.route[k].target_port = new_route.target_port]

\* body of the loop over the source address list for one AF_INET/AF_INET6
\* entry: insert, merge, or evict-and-merge
AddOne(s, new_route) ==
    IF s.route = << >> THEN [s EXCEPT !.route = << new_route >>]
    ELSE LET k == GetRoute(s.route, new_route.source_ip)
         IN  IF k = 0 THEN [s EXCEPT !.route = << new_route >> \o @]
             ELSE IF s.route[k].source_fd < 0
             THEN [s EXCEPT !.route[k].target_ip = new_route.target_ip,
                            !.route[k].target_port = new_route.target_port]
             ELSE LET s1 == CloseSock(s, s.route[k].source_fd,
                                      s.cb[s.route[k].source_fd].peer_fd)
                  IN  IF s1.crashed THEN s1
                      ELSE IF ~(s1.route[k].source_fd < 0)
                      \* assert
                      THEN [s1 EXCEPT !.crashed = TRUE, !.asserted = "AddRoute"]
                      ELSE [s1 EXCEPT !.route[k].target_ip = new_route.target_ip,
                                      !.route[k].target_port = new_route.target_port,
                                      !.route[k].source_fd = NoFd,
                                      !.evicted = @ \cup
                                          {[fd |-> s.route[k].source_fd,
                                            peer |-> s.cb[s.route[k].source_fd].peer_fd,
                                            new_route |-> new_route]}]

RECURSIVE AddSources(_, _, _, _, _)
AddSources(s, list, i, tgt, cnt) ==
    IF i > Len(list) \/ s.crashed THEN [s |-> s, cnt |-> cnt]
    ELSE IF ~IsInet(list[i]) THEN AddSources(s, list, i + 1, tgt, cnt)
    ELSE AddSources(AddOne(s, Route(list[i].family, inet_ntop(list[i]),
                                    tgt.family, tgt.ip, tgt.port)),
                    list, i + 1, tgt, cnt + 1)

\* AddRoute that walks the source list before it looks at the target list
AddRoute_sourceFirst(s, source_host, target_host, target_port) ==
    IF source_host = "" \/ target_host = "" \/ target_port = 0
    THEN [s |-> s, ok |-> FALSE]
    ELSE LET ta == getaddrinfo(target_host)
             sa == getaddrinfo(source_host)
             f  == FirstInet(ta.list)
             r  == AddSources(s, sa.list, 1,
                              IF f = 0
                              THEN [family |-> "none", ip |-> "", port |-> target_port]
                              ELSE [family |-> ta.list[f].family,
                                    ip |-> inet_ntop(ta.list[f]),
                                    port |-> target_port], 0)
         IN  IF sa.status # 0 THEN [s |-> s, ok |-> FALSE]
             ELSE IF ta.status # 0 \/ f = 0 THEN [s |-> r.s, ok |-> FALSE]
             ELSE [s |-> r.s, ok |-> r.cnt > 0]

AddRoute(s, source_host, target_host, target_port) ==
    IF source_host = "" \/ target_host = "" \/ target_port = 0
    THEN [s |-> s, ok |-> FALSE]
    ELSE LET ta == getaddrinfo(target_host)
             sa == getaddrinfo(source_host)
             f  == FirstInet(ta.list)
         IN  IF ta.status # 0 THEN [s |-> s, ok |-> FALSE]
             ELSE IF f = 0 THEN [s |-> s, ok |-> FALSE]
             ELSE IF sa.status # 0 THEN [s |-> s, ok |-> FALSE]
             ELSE LET r == AddSources(s, sa.list, 1,
                                      [family |-> ta.list[f].family,
                                       ip |-> inet_ntop(ta.list[f]),
                                       port |-> target_port], 0)
                  IN  [s |-> r.s, ok |-> r.cnt > 0]

(***************************************************************************)
(* Route text "<source_host> <target_host>:<port>" as scanned by sscanf:   *)
(* fmt is FALSE when fewer than three fields convert.                      *)
(***************************************************************************)
Conf(src, tgt, port) ==
    [fmt |-> TRUE, source_host |-> src, target_host |-> tgt, target_port |-> port]

RouteConfs ==
    << Conf("a", "b", 1),            \*  1
       Conf("a", "six", 2),          \*  2  same source, target lists IPv6 first
       Conf("ab", "a", 2),           \*  3  source resolves to two addresses
       Conf("aa", "b", 2),           \*  4  source resolves to one address twice
       Conf("six", "b", 1),          \*  5
       Conf("a", "nohost", 1),       \*  6  target does not resolve
       Conf("a", "unix", 1),         \*  7  target has no IPv4/IPv6 address
       Conf("nohost", "b", 1),       \*  8  source does not resolve
       Conf("unix", "b", 1),         \*  9  source has no IPv4/IPv6 address
       Conf("a", "b", 0),            \* 10  port 0
       Conf("a", "", 1),             \* 11  blank target host
       [fmt |-> FALSE, source_host |-> "", target_host |-> "", target_port |-> 0] >>

AddRouteConf(s, route_conf) ==
    IF ~route_conf.fmt THEN [s |-> s, ok |-> FALSE]
    ELSE AddRoute(s, route_conf.source_host, route_conf.target_host,
                  route_conf.target_port)

(***************************************************************************)
(* Kernel descriptor allocation: open/accept/socket return the lowest      *)
(* descriptor number that is not open.                                     *)
(***************************************************************************)
HasFree(open) == (0..(NOFILE - 1)) \ open # {}
LowestFree(open) == Min((0..(NOFILE - 1)) \ open)

\* an OnRead that reads whatever the peer has staged
OnReadReads_always(s, fd) == s.cb[fd].peer_fd >= 0

\* does OnRead(fd) reach its read() call?
OnReadReads(s, fd) == s.cb[fd].peer_fd >= 0 /\ s.cb[s.cb[fd].peer_fd].len = 0

\* OnRead that leaves the pair alone when read() fails, whatever the errno
OnRead_ignoreErr(s, fd, res) ==
    LET peer == s.cb[fd].peer_fd
    IN  IF peer < 0 THEN [s EXCEPT !.crashed = TRUE, !.asserted = "GetCallback"]
        ELSE IF ~OnReadReads(s, fd) THEN s
        ELSE CASE res.k = "eof"   -> CloseSock(s, fd, peer)
               [] res.k = "again" -> s
               [] res.k = "err"   -> s
               [] res.k = "data"  ->
                    [s EXCEPT !.cb[peer].buf =
                                  [j \in 1..RW_BUFSIZE |->
                                      IF j <= res.n THEN Byte(fd, s.rd[fd] + j) ELSE @[j]],
                              !.cb[peer].len = res.n,
                              !.rd[fd] = @ + res.n]

\* OnRead that takes EAGAIN and EINTR for errors of the connection
OnRead_closeOnAgain(s, fd, res) ==
    LET peer == s.cb[fd].peer_fd
    IN  IF peer < 0 THEN [s EXCEPT !.crashed = TRUE, !.asserted = "GetCallback"]
        ELSE IF ~OnReadReads(s, fd) THEN s
        ELSE CASE res.k = "eof"   -> CloseSock(s, fd, peer)
               [] res.k = "again" -> CloseSock(s, fd, peer)
               [] res.k = "err"   -> CloseSock(s, fd, peer)
               [] res.k = "data"  ->
                    [s EXCEPT !.cb[peer].buf =
                                  [j \in 1..RW_BUFSIZE |->
                                      IF j <= res.n THEN Byte(fd, s.rd[fd] + j) ELSE @[j]],
                              !.cb[peer].len = res.n,
                              !.rd[fd] = @ + res.n]

(***************************************************************************)
(* OnRead(fd).  res is what read(fd, peer.buf, 512) returns:               *)
(*   [k |-> "data", n |-> 1..RW_BUFSIZE], "eof" (0), "again" (EAGAIN or    *)
(*   EINTR) or "err" (any other errno).                                    *)
(***************************************************************************)
OnRead(s, fd, res) ==
    LET peer == s.cb[fd].peer_fd
    \* assert in GetCallback
    IN  IF peer < 0 THEN [s EXCEPT !.crashed = TRUE, !.asserted = "GetCallback"]
        ELSE IF ~OnReadReads(s, fd) THEN s
        ELSE CASE res.k = "eof"   -> CloseSock(s, fd, peer)
               [] res.k = "again" -> s
               [] res.k = "err"   -> CloseSock(s, fd, peer)
               [] res.k = "data"  ->
                    [s EXCEPT !.cb[peer].buf =
                                  [j \in 1..RW_BUFSIZE |->
                                      IF j <= res.n THEN Byte(fd, s.rd[fd] + j) ELSE @[j]],
                              !.cb[peer].len = res.n,
                              !.rd[fd] = @ + res.n]

\* OnWrite that forgets to move the unsent suffix to the front
OnWrite_noMove(s, fd, res) ==
    LET c == s.cb[fd]
    IN  IF c.len = 0 THEN s
        ELSE CASE res.k = "zero"  -> CloseSock(s, fd, c.peer_fd)
               [] res.k = "again" -> s
               [] res.k = "err"   -> CloseSock(s, fd, c.peer_fd)
               [] res.k = "n"     ->
                    IF res.n < c.len
                    THEN [s EXCEPT !.cb[fd].len = c.len - res.n,
                                   !.wr[fd] = @ \o SubSeq(c.buf, 1, res.n)]
                    ELSE [s EXCEPT !.cb[fd].len = 0,
                                   !.wr[fd] = @ \o SubSeq(c.buf, 1, res.n)]

\* OnWrite that takes a partial write for no write at all
OnWrite_keepLen(s, fd, res) ==
    LET c == s.cb[fd]
    IN  IF c.len = 0 THEN s
        ELSE CASE res.k = "zero"  -> CloseSock(s, fd, c.peer_fd)
               [] res.k = "again" -> s
               [] res.k = "err"   -> CloseSock(s, fd, c.peer_fd)
               [] res.k = "n"     ->
                    IF res.n < c.len
                    THEN s
                    ELSE [s EXCEPT !.cb[fd].len = 0,
                                   !.wr[fd] = @ \o SubSeq(c.buf, 1, res.n)]

(***************************************************************************)
(* OnWrite(fd).  res is what write(fd, buf, len) returns:                  *)
(*   [k |-> "n", n |-> 1..len], "zero", "again" or "err".                  *)
(***************************************************************************)
OnWrite(s, fd, res) ==
    LET c == s.cb[fd]
    IN  IF c.len = 0 THEN s
        ELSE CASE res.k = "zero"  -> CloseSock(s, fd, c.peer_fd)
               [] res.k = "again" -> s
               [] res.k = "err"   -> CloseSock(s, fd, c.peer_fd)
               [] res.k = "n"     ->
                    IF res.n < c.len
                    THEN [s EXCEPT !.cb[fd].buf =
                                       [j \in 1..RW_BUFSIZE |->
                                           IF j <= c.len - res.n THEN c.buf[j + res.n]
                                           ELSE c.buf[j]],
                                   !.cb[fd].len = c.len - res.n,
                                   !.wr[fd] = @ \o SubSeq(c.buf, 1, res.n)]
                    ELSE [s EXCEPT !.cb[fd].len = 0,
                                   !.wr[fd] = @ \o SubSeq(c.buf, 1, res.n)]

(***************************************************************************)
(* OnConnect(fd).  res describes what the system calls of this invocation  *)
(* return: res.k is accept's result ("ok", "again", "err"), res.a the      *)
(* client's IPv4 address, res.step the first later call that fails         *)
(* ("async1", "socket", "async2", "connect") or "ok".                      *)
(***************************************************************************)
OnConnect(s, fd, res) ==
    IF res.k # "ok" THEN CloseSock(s, fd, NoFd)
    ELSE
    LET source_fd == LowestFree(s.open)
        s1 == [s EXCEPT !.open = @ \cup {source_fd}]
        source_ip == inet_ntop(V4(res.a))
        k == GetRoute(s1.route, source_ip)
    IN  IF source_fd >= FD_SETSIZE THEN CloseSock(s1, source_fd, NoFd)
        ELSE IF res.step = "async1" THEN CloseSock(s1, source_fd, NoFd)
        ELSE IF k = 0 THEN CloseSock(s1, source_fd, NoFd)
        ELSE IF res.step = "socket" \/ ~HasFree(s1.open)
        THEN CloseSock(s1, source_fd, NoFd)
        ELSE
        LET target_fd == LowestFree(s1.open)
            s2 == [s1 EXCEPT !.open = @ \cup {target_fd}]
            s3 == CallbackAdd(s2, source_fd, target_fd, "OnRead", "OnWrite")
            s4 == CallbackAdd(s3, target_fd, source_fd, "OnRead", "OnWrite")
        IN  IF target_fd >= FD_SETSIZE THEN CloseSock(s2, source_fd, target_fd)
            ELSE IF res.step = "async2" THEN CloseSock(s2, source_fd, target_fd)
            ELSE IF res.step = "connect" THEN CloseSock(s2, source_fd, target_fd)
            ELSE IF s3.crashed THEN s3
            ELSE IF s4.crashed THEN s4
            ELSE [s4 EXCEPT !.route[k].source_fd = source_fd,
                            !.conn[target_fd] =
                                [family |-> "AF_INET",
                                 a |-> inet_aton(s.route[k].target_ip),
                                 port |-> s.route[k].target_port],
                            !.matched[source_fd] = s.route[k].source_ip]

(***************************************************************************)
(* Command text.  The command buffer holds tokens: NUL, white space, the   *)
(* words of the grammar, and route texts (RouteUnit + index in RouteConfs).*)
(***************************************************************************)
NUL == 0
WS == 1
ExitLower == 2          \* "exit"
ExitUpper == 3          \* "EXIT"
AddSp == 4              \* "add "
Junk == 5               \* any other word
RouteUnit == 10

IsRouteUnit(u) == u > RouteUnit /\ u <= RouteUnit + Len(RouteConfs)

\* the C string that starts at buf[1]
RECURSIVE CString(_, _)
CString(buf, i) ==
    IF i > Len(buf) \/ buf[i] = NUL THEN << >>
    ELSE << buf[i] >> \o CString(buf, i + 1)

RECURSIVE TrimLeft(_)
TrimLeft(str) ==
    IF str # << >> /\ Head(str) = WS THEN TrimLeft(Tail(str)) ELSE str

RECURSIVE TrimRight(_)
TrimRight(str) ==
    IF str # << >> /\ str[Len(str)] = WS
    THEN TrimRight(SubSeq(str, 1, Len(str) - 1)) ELSE str

TrimString(str) == TrimRight(TrimLeft(str))

\* AddRoute(const char* route_conf): the text after "add "
AddRouteText(s, text) ==
    LET t == TrimLeft(text)
    IN  IF t = << >> THEN [s |-> s, ok |-> FALSE]
        ELSE IF ~IsRouteUnit(Head(t)) THEN [s |-> s, ok |-> FALSE]
        ELSE AddRouteConf(s, RouteConfs[Head(t) - RouteUnit])

\* a ProcessCmd that stops the proxy on every command that is not an add
ProcessCmd_elseExit(s, cmd) ==
    LET s0 == [s EXCEPT !.ran = Append(@, cmd)]
    IN  IF cmd # << >> /\ Head(cmd) = AddSp
        THEN AddRouteText(s0, Tail(cmd)).s
        ELSE [s0 EXCEPT !.keep_running = FALSE]

\* History: the command is appended to ran.
ProcessCmd(s, cmd) ==
    LET s0 == [s EXCEPT !.ran = Append(@, cmd)]
    IN  IF cmd \in {<< ExitLower >>, << ExitUpper >>}
        THEN [s0 EXCEPT !.keep_running = FALSE]
        ELSE IF cmd # << >> /\ Head(cmd) = AddSp
        THEN AddRouteText(s0, Tail(cmd)).s
        ELSE s0

(***************************************************************************)
(* MakeFifo: unlink, mkfifo, open, register.  mk is the first call that    *)
(* fails ("mkfifo", "open") or "ok".  A fresh FIFO holds no data and has   *)
(* had no writer.  History: hard tells whether a read() has failed with an *)
(* error other than EAGAIN/EINTR since the FIFO was opened, and got is the *)
(* sequence of chunks read() has returned since it was opened (no longer   *)
(* kept once hard); unlinked tells that this process has called unlink()   *)
(* on the FIFO path.                                                       *)
(***************************************************************************)
NoPipe ==
    [data |-> << >>, eof |-> FALSE, rd |-> FALSE, got |-> << >>, hard |-> FALSE,
     unlinked |-> TRUE]
FreshPipe ==
    [data |-> << >>, eof |-> FALSE, rd |-> TRUE, got |-> << >>, hard |-> FALSE,
     unlinked |-> TRUE]
\* before the first MakeFifo
NeverPipe == [NoPipe EXCEPT !.unlinked = FALSE]

MakeFifo(s, mk) ==
    IF mk # "ok" \/ ~HasFree(s.open) THEN [s EXCEPT !.pipe = NoPipe]
    ELSE LET fifo == LowestFree(s.open)
         IN  CallbackAdd([s EXCEPT !.open = @ \cup {fifo}, !.pipe = FreshPipe],
                         fifo, NoFd, "OnCommand", "null")

(***************************************************************************)
(* OnCommand(fd).  res is what read(fd, buf + len, 512 - len) returns,     *)
(* [k |-> "data", n], "eof" (0), "again", "err"; mk is passed to MakeFifo. *)
(***************************************************************************)
\* OnCommand that executes what it has whenever read() returns data
OnCommand_eager(s, fd, res, mk) ==
    LET c == s.cb[fd]
    IN  CASE res.k = "eof" ->
               LET s1 == ProcessCmd([s EXCEPT !.evicted = {}],
                                    TrimString(CString(c.buf, 1)))
                   s2 == IF s1.crashed THEN s1 ELSE CloseSock(s1, fd, NoFd)
                   s3 == IF s2.crashed THEN s2 ELSE MakeFifo(s2, mk)
               IN  IF s3.crashed THEN s3
                   ELSE [s3 EXCEPT !.cb[fd].buf = ZeroBuf, !.cb[fd].len = 0]
          [] res.k = "again" -> s
          [] res.k = "err"   -> [s EXCEPT !.cb[fd].buf = ZeroBuf, !.cb[fd].len = 0,
                                          !.pipe.hard = TRUE, !.pipe.got = << >>]
          [] res.k = "data"  ->
               LET s1 == [s EXCEPT !.cb[fd].buf =
                             [j \in 1..RW_BUFSIZE |->
                                 IF j > c.len /\ j <= c.len + res.n
                                 THEN s.pipe.data[j - c.len] ELSE @[j]],
                         !.cb[fd].len = c.len + res.n,
                         !.pipe.data = SubSeq(@, res.n + 1, Len(@)),
                         !.pipe.got = Append(@, SubSeq(s.pipe.data, 1, res.n))]
               IN  ProcessCmd(s1, TrimString(CString(s1.cb[fd].buf, 1)))

OnCommand(s, fd, res, mk) ==
    LET c == s.cb[fd]
    IN  CASE res.k = "eof" ->
               LET s1 == ProcessCmd([s EXCEPT !.evicted = {}],
                                    TrimString(CString(c.buf, 1)))
                   s2 == IF s1.crashed THEN s1 ELSE CloseSock(s1, fd, NoFd)
                   s3 == IF s2.crashed THEN s2 ELSE MakeFifo(s2, mk)
               IN  IF s3.crashed THEN s3
                   ELSE [s3 EXCEPT !.cb[fd].buf = ZeroBuf, !.cb[fd].len = 0]
          [] res.k = "again" -> s
          [] res.k = "err"   -> [s EXCEPT !.cb[fd].buf = ZeroBuf, !.cb[fd].len = 0,
                                          !.pipe.hard = TRUE, !.pipe.got = << >>]
          [] res.k = "data"  ->
               [s EXCEPT !.cb[fd].buf =
                             [j \in 1..RW_BUFSIZE |->
                                 IF j > c.len /\ j <= c.len + res.n
                                 THEN s.pipe.data[j - c.len] ELSE @[j]],
                         !.cb[fd].len = c.len + res.n,
                         !.pipe.data = SubSeq(@, res.n + 1, Len(@)),
                         !.pipe.got = Append(@, SubSeq(s.pipe.data, 1, res.n))]

\* the results read() can return to OnCommand in state s
CommandReads(s, fd) ==
    LET space == RW_BUFSIZE - s.cb[fd].len
    IN  IF space = 0 THEN {[k |-> "eof", n |-> 0]}
        ELSE IF s.pipe.data # << >>
        THEN {[k |-> "data", n |-> n] : n \in 1..Min({space, Len(s.pipe.data)})}
             \cup {[k |-> "again", n |-> 0]}
        ELSE IF ~s.pipe.eof THEN {[k |-> "again", n |-> 0]}
        ELSE {[k |-> "eof", n |-> 0], [k |-> "err", n |-> 0]}

\* a destructor that unregisters the descriptors and leaves them open
RECURSIVE Destructor_keepOpen(_, _)
Destructor_keepOpen(s, i) ==
    IF i >= FD_SETSIZE THEN [s EXCEPT !.route = << >>]
    ELSE IF i \in s.rfds \/ i \in s.wfds
    THEN Destructor_keepOpen(CallbackRemove(s, i), i + 1)
    ELSE Destructor_keepOpen(s, i + 1)

\* ~CTcpProxy: delete the routes, unregister and close what is registered
RECURSIVE Destructor(_, _)
Destructor(s, i) ==
    IF i >= FD_SETSIZE THEN [s EXCEPT !.route = << >>]
    ELSE IF i \in s.rfds \/ i \in s.wfds
    THEN Destructor([CallbackRemove(s, i) EXCEPT !.open = @ \ {i}], i + 1)
    ELSE Destructor(s, i + 1)

(***************************************************************************)
(* Configuration files the proxy is started with: the port key and the    *)
(* route values of the routes section (indices in RouteConfs).  The routes *)
(* section is the last of the file; nl tells whether a newline follows the *)
(* last line.                                                              *)
(***************************************************************************)
ConfigFile(port, routes) ==
    [proxy |-> TRUE, hasport |-> TRUE, port |-> port,
     hasroutes |-> TRUE, routes |-> routes, nl |-> TRUE]

\* proxy / hasroutes: the file exists and has that section; hasport: the
\* proxy section has a port value that reads as an integer
Configs ==
    { ConfigFile(9000, << >>),
      ConfigFile(9000, << 1 >>),
      ConfigFile(9000, << 1, 12 >>),
      ConfigFile(9000, << 8, 1 >>),
      [ConfigFile(9000, << 1, 6 >>) EXCEPT !.nl = FALSE],
      ConfigFile(0, << 1 >>),
      ConfigFile(65536, << 1 >>),
      [ConfigFile(9000, << 1 >>) EXCEPT !.proxy = FALSE],
      [ConfigFile(9000, << 1 >>) EXCEPT !.hasport = FALSE],
      [ConfigFile(9000, << 1 >>) EXCEPT !.hasroutes = FALSE] }

\* EnumValue with the visitor of ReadConfig: the loop of ReadNextValue stops
\* at the first route AddRoute refuses, and the result is then feof(file):
\* true when fgets met the end of the file while it read that line, i.e.
\* when the refused route is the last line and no newline follows it
RECURSIVE EnumRoutes(_, _, _, _)
EnumRoutes(s, routes, i, nl) ==
    IF i > Len(routes) THEN [s |-> s, ok |-> TRUE]
    ELSE LET r == AddRouteConf(s, RouteConfs[routes[i]])
         IN  IF r.ok THEN EnumRoutes(r.s, routes, i + 1, nl)
             ELSE [s |-> r.s, ok |-> (i = Len(routes) /\ ~nl)]

\* a ReadConfig that accepts any port the file gives
ReadConfig_anyPort(s, cfg) ==
    IF ~cfg.proxy THEN [s |-> s, ok |-> FALSE]
    ELSE IF ~cfg.hasport THEN [s |-> s, ok |-> FALSE]
    ELSE IF ~cfg.hasroutes THEN [s |-> s, ok |-> FALSE]
    ELSE EnumRoutes(s, cfg.routes, 1, cfg.nl)

ReadConfig(s, cfg) ==
    IF ~cfg.proxy THEN [s |-> s, ok |-> FALSE]
    ELSE IF ~cfg.hasport THEN [s |-> s, ok |-> FALSE]
    ELSE IF cfg.port <= 0 \/ cfg.port > 65535 THEN [s |-> s, ok |-> FALSE]
    ELSE IF ~cfg.hasroutes THEN [s |-> s, ok |-> FALSE]
    ELSE EnumRoutes(s, cfg.routes, 1, cfg.nl)

(***************************************************************************)
(* Workloads.  A run is given a quota of connections, payload bytes and    *)
(* operator commands, the commands the operator chooses from, and a        *)
(* largest select() batch.                                                 *)
(***************************************************************************)
Cmds ==
    { << AddSp, RouteUnit + r >> : r \in 1..Len(RouteConfs) }
    \cup { << ExitLower >>, << WS, ExitUpper >>, << Junk >>, << >> }

Quota(acc, data, cmd, cmds, ready) ==
    [acc |-> acc, data |-> data, cmd |-> cmd, cmds |-> cmds, ready |-> ready]

Profiles ==
    { Quota(1, MaxData, 0, {}, 1),          \* one pair forwarding payload
      Quota(1, 1, 1, Cmds, 1),              \* staged bytes and a command
      Quota(2, 0, 1, Cmds, 1),              \* two connections and a command
      Quota(2, 0, 1, {<< AddSp, RouteUnit + 2 >>}, MaxReady),
                                            \* a route change inside a large batch
      Quota(MaxAccept, 0, 0, {}, 1),        \* connections up to the descriptor ceiling
      Quota(0, 0, MaxCmd, Cmds, 1) }        \* commands only

\* the workloads that establish pairs, on which teardown is exercised
TeardownProfiles ==
    { Quota(1, 1, 1, {<< AddSp, RouteUnit + 2 >>, << ExitLower >>}, 1),
      Quota(2, 0, 1, {<< AddSp, RouteUnit + 2 >>}, MaxReady),
      Quota(MaxAccept, 0, 0, {}, 1) }

Clients == {1, 2}

\* the instances of the program started with the same base name, and an
\* instance that has not been started
Procs == {1, 2}
NotStarted ==
    [pc |-> "idle", lock |-> "none", keep_running |-> FALSE, port |-> 0,
     code |-> "none", fifo |-> "none"]

(***************************************************************************)
(* State                                                                   *)
(***************************************************************************)
(***************************************************************************)
(* Operators writing to the FIFO.  Each opens the FIFO path for writing,   *)
(* writes its command with one write() and closes.  fifo tells which FIFO  *)
(* the operator's descriptor refers to: "cur", the one the proxy reads, or *)
(* "old", one the proxy has closed and unlinked since; lost tells that the *)
(* command went into a FIFO that had no reader left to read it.            *)
(***************************************************************************)
Writers == {1, 2}
Idle(cmd) == [pc |-> "idle", cmd |-> cmd, fifo |-> "none", lost |-> FALSE]

\* a command that fills the command buffer
LongCmd == [i \in 1..RW_BUFSIZE |-> Junk]

\* the commands the operators choose from
WriterCmds(w) ==
    IF w = 1 THEN {<< Junk >>, LongCmd, LongCmd \o << Junk >>}
    ELSE {<< AddSp, RouteUnit + 1 >>, << ExitLower >>}

VARIABLES
    pc,             \* "ctor", "listen", "loop", "done", "failed"
    cb, rfds, wfds, route, keep_running,    \* members of CTcpProxy
    open,           \* descriptors open in the process
    crashed,        \* an assert has aborted the process
    pipe,           \* the command FIFO: unread data, writer closed, reader open,
                    \* and the chunks read from it
    trfds, twfds,   \* select() result not yet walked by the dispatch loop
    rd, wr,         \* per descriptor: bytes read from it, bytes written to it
    conn,           \* per target descriptor: address and port of its connect()
    matched,        \* per client descriptor: source_ip of the route it matched
    dropped,        \* staged bytes discarded by CallbackRemove so far
    asserted,       \* the function whose assert aborted the process, or "none"
    fresh,          \* descriptors registered since select() last returned, while
                    \* bits of its result are still to be walked
    evicted,        \* pairs the last executed command evicted, with the new route
    last,           \* the step that led to this state
    ran,            \* the commands that step executed
    quota,          \* what is left of the workload
    inst,           \* two instances of the program: how far each has started
    flock,          \* the instance holding the write lock on the lock file, or 0
    wtr,            \* two operators writing to the FIFO: how far each has got
    executed,       \* the commands OnCommand has executed for them, in order
    refused         \* target descriptors whose connect(), reported in progress,
                    \* has failed since

\* the proxy under study, and the instances competing for the lock file
proxyvars == << pc, cb, rfds, wfds, route, keep_running, open, crashed, pipe,
                trfds, twfds, rd, wr, conn, matched, dropped, evicted, asserted,
                fresh, last, ran,
                quota >>
lockvars == << inst, flock >>
envvars == << wtr, executed, refused >>
vars == << proxyvars, lockvars, envvars >>

Cur ==
    [cb |-> cb, rfds |-> rfds, wfds |-> wfds, route |-> route,
     keep_running |-> keep_running, open |-> open, crashed |-> crashed,
     pipe |-> pipe, rd |-> rd, wr |-> wr, conn |-> conn,
     matched |-> matched, dropped |-> dropped, evicted |-> evicted, asserted |-> asserted,
     fresh |-> fresh,
     ran |-> << >>]

Set(t) ==
    /\ cb' = t.cb
    /\ rfds' = t.rfds
    /\ wfds' = t.wfds
    /\ route' = t.route
    /\ keep_running' = t.keep_running
    /\ open' = t.open
    /\ crashed' = t.crashed
    /\ pipe' = t.pipe
    /\ rd' = t.rd
    /\ wr' = t.wr
    /\ conn' = t.conn
    /\ matched' = t.matched
    /\ dropped' = t.dropped
    /\ asserted' = t.asserted
    \* kept while bits of the select() result are left after this step
    /\ fresh' = IF Cardinality(trfds) + Cardinality(twfds) <= 1 THEN {} ELSE t.fresh
    /\ evicted' = t.evicted
    /\ ran' = t.ran

\* the step that led to a state: the handler, its descriptor and peer, what
\* its system call returned, and for the constructor what it was started with
Event(fn, fd, peer, k, n) ==
    [fn |-> fn, fd |-> fd, peer |-> peer, k |-> k, n |-> n, in |-> << >>]

Start(profiles) ==
    /\ pc = "ctor"
    /\ cb = [fd \in Slots |-> Callback]
    /\ rfds = {}
    /\ wfds = {}
    /\ route = << >>
    /\ keep_running = FALSE
    /\ open = {0, 1, 2}
    /\ crashed = FALSE
    /\ pipe = NeverPipe
    /\ trfds = {}
    /\ twfds = {}
    /\ rd = [fd \in Slots |-> 0]
    /\ wr = [fd \in Slots |-> << >>]
    /\ conn = [fd \in Slots |-> NoConn]
    /\ matched = [fd \in Slots |-> ""]
    /\ dropped = 0
    /\ asserted = "none"
    /\ fresh = {}
    /\ evicted = {}
    /\ last = Event("none", NoFd, NoFd, "none", 0)
    /\ ran = << >>
    /\ quota \in profiles
    /\ inst = [p \in Procs |-> NotStarted]
    /\ flock = 0
    /\ wtr = [w \in Writers |-> Idle(<< >>)]
    /\ executed = << >>
    /\ refused = {}

Init == Start(Profiles)

(***************************************************************************)
(* CTcpProxy::CTcpProxy.  lock is the outcome of IsProcessRunning ("free", *)
(* "held"), cfg the configuration file, mk the outcome of MakeFifo.        *)
(* IsProcessRunning leaves the lock file descriptor open.                  *)
(***************************************************************************)
\* a constructor that makes the FIFO before it looks at the lock
Constructor_fifoFirst(s, lock, cfg, mk) ==
    LET s0 == [s EXCEPT !.open = @ \cup {LowestFree(@)}]
        r  == ReadConfig(s0, cfg)
        s1 == MakeFifo(r.s, mk)
    IN  IF ~r.ok THEN r.s
        ELSE IF mk # "ok" THEN s1
        ELSE IF lock = "held" THEN s1
        ELSE [s1 EXCEPT !.keep_running = TRUE]

Constructor(s, lock, cfg, mk) ==
    LET s0 == [s EXCEPT !.open = @ \cup {LowestFree(@)}]
        r  == ReadConfig(s0, cfg)
        s1 == MakeFifo(r.s, mk)
    IN  IF lock = "held" THEN s0
        ELSE IF ~r.ok THEN r.s
        ELSE IF mk # "ok" THEN s1
        ELSE [s1 EXCEPT !.keep_running = TRUE]

Construct ==
    /\ UNCHANGED << lockvars, envvars >>
    /\ pc = "ctor"
    /\ \E lock \in {"free", "held"}, cfg \in Configs, mk \in {"ok", "mkfifo", "open"} :
          /\ Set(Constructor(Cur, lock, cfg, mk))
          /\ last' = [Event("Constructor", NoFd, NoFd, "none", 0)
                         EXCEPT !.in = << [lock |-> lock, cfg |-> cfg, mk |-> mk] >>]
    /\ pc' = "listen"
    /\ UNCHANGED << trfds, twfds, quota >>

(***************************************************************************)
(* CTcpProxy::Listen up to the event loop.  res = "ok" or the failure of   *)
(* one of socket/setsockopt/bind/MakeAsync/listen.                         *)
(***************************************************************************)
ListenOpen(s) ==
    LET sock == LowestFree(s.open)
    IN  CallbackAdd([s EXCEPT !.open = @ \cup {sock}], sock, NoFd, "OnConnect", "null")

Listen ==
    /\ UNCHANGED << lockvars, envvars >>
    /\ pc = "listen"
    /\ ~crashed
    /\ \E res \in {"ok", "fail"} :
          IF keep_running /\ res = "ok"
          THEN /\ Set(ListenOpen(Cur))
               /\ pc' = "loop"
               /\ last' = [Event("Listen", NoFd, NoFd, "ok", 0) EXCEPT !.in = last.in]
          ELSE /\ Set(Destructor(Cur, 0))
               /\ pc' = "failed"
               /\ last' = [Event("Listen", NoFd, NoFd, "fail", 0) EXCEPT !.in = last.in]
    /\ UNCHANGED << trfds, twfds, quota >>

(***************************************************************************)
(* CallbackSelect.  The loop `for(i = 3; n && i < FD_SETSIZE; i++)` walks  *)
(* the descriptors select() reported in ascending order, read direction    *)
(* first; trfds/twfds hold the reported bits it has not reached yet, so    *)
(* the loop variable i is the least element of their union and n is the    *)
(* number of bits left.                                                    *)
(***************************************************************************)
Batch == trfds \cup twfds
\* a loop that walks the reported descriptors from the highest down
NextFd_descending == CHOOSE fd \in Batch : \A g \in Batch : g <= fd
NextFd == Min(Batch)
ReadTurn == NextFd \in trfds
InBatch == pc = "loop" /\ ~crashed /\ Batch # {}

\* descriptors select() can report readable: the FIFO only once a writer
\* has written or closed
Readable ==
    {fd \in rfds : cb[fd].read_fn = "OnCommand" => (pipe.data # << >> \/ pipe.eof)}

CallbackSelect ==
    /\ UNCHANGED << lockvars, envvars >>
    /\ ran' = << >>
    /\ pc = "loop"
    /\ ~crashed
    /\ keep_running
    /\ Batch = {}
    /\ \E R \in SUBSET Readable, W \in SUBSET wfds :
          /\ Cardinality(R) + Cardinality(W) \in 1..quota.ready
          /\ trfds' = R
          /\ twfds' = W
    /\ last' = Event("select", NoFd, NoFd, "ok", 0)
    /\ fresh' = {}
    /\ UNCHANGED << pc, cb, rfds, wfds, route, keep_running, open, crashed, pipe,
                    rd, wr, conn, matched, dropped, evicted, asserted, quota >>

\* select() returns -1: logged, nothing is dispatched
SelectFail ==
    /\ UNCHANGED << lockvars, envvars >>
    /\ ran' = << >>
    /\ pc = "loop"
    /\ ~crashed
    /\ keep_running
    /\ Batch = {}
    /\ last.fn # "select"
    /\ last' = Event("select", NoFd, NoFd, "err", 0)
    /\ UNCHANGED << pc, cb, rfds, wfds, route, keep_running, open, crashed, pipe,
                    trfds, twfds, rd, wr, conn, matched, dropped, evicted, asserted,
                    fresh, quota >>

\* the bit just walked is removed from the pending result
Walked ==
    IF ReadTurn THEN trfds' = trfds \ {NextFd} /\ twfds' = twfds
    ELSE trfds' = trfds /\ twfds' = twfds \ {NextFd}

\* the reported descriptor is no longer in the live interest set
DispatchSkip ==
    /\ UNCHANGED << lockvars, envvars >>
    /\ ran' = << >>
    /\ InBatch
    /\ IF ReadTurn THEN NextFd \notin rfds ELSE NextFd \notin wfds
    /\ Walked
    /\ last' = Event("skip", NextFd, NoFd, IF ReadTurn THEN "r" ELSE "w", 0)
    /\ fresh' = IF Cardinality(trfds) + Cardinality(twfds) <= 1 THEN {} ELSE fresh
    /\ UNCHANGED << pc, cb, rfds, wfds, route, keep_running, open, crashed, pipe,
                    rd, wr, conn, matched, dropped, evicted, asserted, quota >>

ReadResults(s, fd, data) ==
    IF ~OnReadReads(s, fd) THEN {[k |-> "none", n |-> 0]}
    ELSE {[k |-> "eof", n |-> 0], [k |-> "again", n |-> 0], [k |-> "err", n |-> 0]}
         \cup {[k |-> "data", n |-> n] : n \in 1..Min({RW_BUFSIZE, data})}

DispatchOnRead ==
    /\ UNCHANGED << lockvars, envvars >>
    /\ InBatch
    /\ ReadTurn
    /\ NextFd \in rfds
    /\ cb[NextFd].read_fn = "OnRead"
    /\ \E res \in ReadResults(Cur, NextFd, quota.data) :
          /\ Set(OnRead(Cur, NextFd, res))
          /\ last' = Event("OnRead", NextFd, cb[NextFd].peer_fd, res.k, res.n)
          /\ quota' = [quota EXCEPT !.data = @ - res.n]
    /\ Walked
    /\ UNCHANGED pc

WriteResults(s, fd) ==
    IF s.cb[fd].len = 0 THEN {[k |-> "none", n |-> 0]}
    ELSE {[k |-> "zero", n |-> 0], [k |-> "again", n |-> 0], [k |-> "err", n |-> 0]}
         \cup {[k |-> "n", n |-> n] : n \in 1..s.cb[fd].len}

DispatchOnWrite ==
    /\ UNCHANGED << lockvars, envvars >>
    /\ InBatch
    /\ ~ReadTurn
    /\ NextFd \in wfds
    /\ cb[NextFd].write_fn = "OnWrite"
    /\ \E res \in WriteResults(Cur, NextFd) :
          /\ Set(OnWrite(Cur, NextFd, res))
          /\ last' = Event("OnWrite", NextFd, cb[NextFd].peer_fd, res.k, res.n)
    /\ Walked
    /\ UNCHANGED << pc, quota >>

AcceptResults(s, acc) ==
    {[k |-> "again", a |-> 0, step |-> "none"], [k |-> "err", a |-> 0, step |-> "none"]}
    \cup (IF acc > 0 /\ HasFree(s.open)
          THEN {[k |-> "ok", a |-> a, step |-> st] :
                   a \in Clients,
                   st \in {"async1", "socket", "async2", "connect", "ok"}}
          ELSE {})

DispatchOnConnect ==
    /\ UNCHANGED << lockvars, envvars >>
    /\ InBatch
    /\ ReadTurn
    /\ NextFd \in rfds
    /\ cb[NextFd].read_fn = "OnConnect"
    /\ \E res \in AcceptResults(Cur, quota.acc) :
          /\ Set(OnConnect(Cur, NextFd, res))
          /\ last' = Event("OnConnect", NextFd, NoFd,
                            IF res.k = "ok" /\ res.step # "ok" THEN "step" ELSE res.k,
                            res.a)
          /\ quota' = [quota EXCEPT !.acc = IF res.k = "ok" THEN @ - 1 ELSE @]
    /\ Walked
    /\ UNCHANGED pc

DispatchOnCommand ==
    /\ UNCHANGED << lockvars, envvars >>
    /\ InBatch
    /\ ReadTurn
    /\ NextFd \in rfds
    /\ cb[NextFd].read_fn = "OnCommand"
    /\ \E res \in CommandReads(Cur, NextFd), mk \in {"ok", "mkfifo", "open"} :
          /\ Set(OnCommand(Cur, NextFd, res, mk))
          /\ last' = Event("OnCommand", NextFd, NoFd, res.k,
                            IF res.k = "eof" THEN Len(pipe.got) ELSE res.n)
    /\ Walked
    /\ UNCHANGED << pc, quota >>

\* the event loop ends, Listen returns true and main destroys the proxy
ListenReturn ==
    /\ UNCHANGED << lockvars, envvars >>
    /\ pc = "loop"
    /\ ~crashed
    /\ ~keep_running
    /\ Batch = {}
    /\ Set(Destructor(Cur, 0))
    /\ pc' = "done"
    /\ last' = Event("Listen", NoFd, NoFd, "return", Cardinality(rfds \cup wfds))
    /\ UNCHANGED << trfds, twfds, quota >>

(***************************************************************************)
(* The operator: opens the FIFO, writes one command and closes it.  The    *)
(* proxy observes the FIFO only through select() and OnCommand, and a      *)
(* FIFO that has had no writer is not in the pending select() result, so   *)
(* a write during a batch is indistinguishable from one just after it.     *)
(***************************************************************************)
WriteCmd ==
    /\ UNCHANGED << lockvars, envvars >>
    /\ ran' = << >>
    /\ pc = "loop"
    /\ ~crashed
    /\ pipe.rd
    /\ pipe.data = << >>
    /\ ~pipe.eof
    /\ quota.cmd > 0
    /\ Batch = {}
    /\ \E cmd \in quota.cmds : pipe' = [pipe EXCEPT !.data = cmd, !.eof = TRUE]
    /\ quota' = [quota EXCEPT !.cmd = @ - 1]
    /\ last' = Event("WriteCmd", NoFd, NoFd, "ok", 0)
    /\ UNCHANGED << pc, cb, rfds, wfds, route, keep_running, open, crashed,
                    trfds, twfds, rd, wr, conn, matched, dropped, evicted, asserted,
                    fresh >>

Next ==
    \/ Construct
    \/ Listen
    \/ CallbackSelect
    \/ SelectFail
    \/ DispatchSkip
    \/ DispatchOnRead
    \/ DispatchOnWrite
    \/ DispatchOnConnect
    \/ DispatchOnCommand
    \/ ListenReturn
    \/ WriteCmd

Spec == Init /\ [][Next]_vars

\* the same program, run on the workloads that establish pairs
InitTeardown == Start(TeardownProfiles)
SpecTeardown == InitTeardown /\ [][Next]_vars

\* the workloads in which the operator sends exit: alone, inside a large
\* batch, and at the descriptor ceiling
ExitProfiles ==
    { Quota(1, 1, 1, {<< ExitLower >>}, 1),
      Quota(2, 0, 1, {<< ExitLower >>}, MaxReady),
      Quota(MaxAccept, 0, 1, {<< WS, ExitUpper >>}, 2) }

InitExit == Start(ExitProfiles)
SpecExit == InitExit /\ [][Next]_vars

\* main: 0 when Listen returned true, 1 when it returned false, the abort
\* status when an assert fired; "none" while the process runs
ExitCode ==
    IF crashed THEN "abort"
    ELSE IF pc = "done" THEN "0"
    ELSE IF pc = "failed" THEN "1"
    ELSE "none"

(***************************************************************************)
(* Single-instance guard.  Two instances of the program are started with   *)
(* the same base name, each with its own configuration file; each is       *)
(* followed through IsProcessRunning, the rest of the constructor, Listen  *)
(* and the end of the process.  The lock is a POSIX record lock: it is     *)
(* granted to one process at a time and the kernel releases it when the    *)
(* holder ends (the lock file descriptor is never closed before).  fifo     *)
(* tells what has become of the FIFO an instance made: "path", it is the   *)
(* one at the FIFO path, or "unlinked", another instance has unlinked it.  *)
(***************************************************************************)
\* a guard that never reports a running instance
IsProcessRunning_never(op, fl) == FALSE

\* IsProcessRunning: op is what open() of the lock file returned, fl what
\* fcntl(F_SETLK) returned
IsProcessRunning(op, fl) ==
    IF op # "ok" THEN FALSE
    ELSE fl \in {"EACCES", "EAGAIN"}

\* what fcntl(F_SETLK) with F_WRLCK can return to p: the lock, a conflict
\* when another process holds it, or another error (ENOLCK, EINTR)
SetLk(p) ==
    (IF flock \in {0, p} THEN {"ok"} ELSE {"EACCES", "EAGAIN"}) \cup {"ENOLCK"}

\* the configuration files the two instances are started with
LockConfigs == Configs \cup {ConfigFile(9001, << >>)}

\* bind() fails when another listening instance has the port
BindResults(p) ==
    IF \E q \in Procs \ {p} : inst[q].pc = "loop" /\ inst[q].port = inst[p].port
    THEN {"fail"}
    ELSE {"ok", "fail"}

\* main returns: the process ends and the kernel drops its lock
Exits(p, code) ==
    /\ inst' = [inst EXCEPT ![p].pc = "exited", ![p].code = code]
    /\ flock' = IF flock = p THEN 0 ELSE flock

GuardOpen(p) ==
    /\ inst[p].pc = "idle"
    /\ \E op \in {"ok", "fail"} :
          inst' = [inst EXCEPT ![p].pc = IF op = "ok" THEN "fcntl" ELSE "ctor",
                               ![p].lock = IF op = "ok" THEN "opened" ELSE "noopen"]
    /\ UNCHANGED << flock, proxyvars, envvars >>

GuardLock(p) ==
    /\ inst[p].pc = "fcntl"
    /\ \E fl \in SetLk(p) :
          /\ inst' = [inst EXCEPT ![p].pc = "ctor", ![p].lock = fl]
          /\ flock' = IF fl = "ok" THEN p ELSE flock
    /\ UNCHANGED << proxyvars, envvars >>

InstConstruct(p) ==
    /\ inst[p].pc = "ctor"
    /\ \E cfg \in LockConfigs, mk \in {"ok", "mkfifo", "open"} :
          LET running == IsProcessRunning(IF inst[p].lock = "noopen" THEN "fail" ELSE "ok",
                                          inst[p].lock)
          IN  \E s \in {Constructor(Cur, IF running THEN "held" ELSE "free", cfg, mk)} :
                 inst' = [q \in Procs |->
                             IF q = p
                             THEN [inst[p] EXCEPT
                                      !.pc = "listen",
                                      !.keep_running = s.keep_running,
                                      !.port = IF s.keep_running THEN cfg.port ELSE 0,
                                      !.fifo = IF s.pipe.rd THEN "path" ELSE "none"]
                             ELSE IF s.pipe.unlinked /\ inst[q].fifo = "path"
                             THEN [inst[q] EXCEPT !.fifo = "unlinked"]
                             ELSE inst[q]]
    /\ UNCHANGED << flock, proxyvars, envvars >>

InstListen(p) ==
    /\ inst[p].pc = "listen"
    /\ IF ~inst[p].keep_running THEN Exits(p, "1")
       ELSE \E res \in BindResults(p) :
               IF res = "ok"
               THEN inst' = [inst EXCEPT ![p].pc = "loop"] /\ UNCHANGED flock
               ELSE Exits(p, "1")
    /\ UNCHANGED << proxyvars, envvars >>

\* the exit command: the loop ends and Listen returns true
InstExit(p) ==
    /\ inst[p].pc = "loop"
    /\ Exits(p, "0")
    /\ UNCHANGED << proxyvars, envvars >>

NextLock ==
    \/ \E p \in Procs : GuardOpen(p)
    \/ \E p \in Procs : GuardLock(p)
    \/ \E p \in Procs : InstConstruct(p)
    \/ \E p \in Procs : InstListen(p)
    \/ \E p \in Procs : InstExit(p)

InitLock == Start({Quota(0, 0, 0, {}, 1)})
SpecLock == InitLock /\ [][NextLock]_vars

\* the same program, run on a workload in which a second connection is
\* accepted and sends payload after the first was torn down
ReuseProfiles == { Quota(2, 2, 1, {<< ExitLower >>}, 2) }
InitReuse == Start(ReuseProfiles)
SpecReuse == InitReuse /\ [][Next]_vars

(***************************************************************************)
(* The reactor with one pair established, under a fair kernel.  The state  *)
(* is the one after the constructor, Listen and the first OnConnect; the   *)
(* clients send PairData bytes.  select() reports every ready descriptor   *)
(* sooner or later, the loop of CallbackSelect goes on to the next         *)
(* reported descriptor, and a descriptor that stays ready has its read or  *)
(* write succeed sooner or later.                                          *)
(***************************************************************************)
\* the descriptors of that state: open() in IsProcessRunning and MakeFifo,
\* socket() in Listen, accept() and socket() in OnConnect return the lowest
\* free descriptor
LockFd == 3
FifoFd == 4
ListenFd == 5
SourceFd == 6
TargetFd == 7
PairFds == {SourceFd, TargetFd}

InitPair ==
    /\ pc = "loop"
    /\ cb = [fd \in Slots |->
                CASE fd = FifoFd   -> [Callback EXCEPT !.read_fn = "OnCommand"]
                  [] fd = ListenFd -> [Callback EXCEPT !.read_fn = "OnConnect"]
                  [] fd = SourceFd -> [Callback EXCEPT !.read_fn = "OnRead",
                                                       !.write_fn = "OnWrite",
                                                       !.peer_fd = TargetFd]
                  [] fd = TargetFd -> [Callback EXCEPT !.read_fn = "OnRead",
                                                       !.write_fn = "OnWrite",
                                                       !.peer_fd = SourceFd]
                  [] OTHER -> Callback]
    /\ rfds = {FifoFd, ListenFd, SourceFd, TargetFd}
    /\ wfds = {SourceFd, TargetFd}
    /\ route = << [Route("AF_INET", inet_ntop(V4(1)), "AF_INET", inet_ntop(V4(2)), 1)
                     EXCEPT !.source_fd = SourceFd] >>
    /\ keep_running = TRUE
    /\ open = 0..TargetFd
    /\ crashed = FALSE
    /\ pipe = FreshPipe
    /\ trfds = {}
    /\ twfds = {}
    /\ rd = [fd \in Slots |-> 0]
    /\ wr = [fd \in Slots |-> << >>]
    /\ conn = [fd \in Slots |->
                  IF fd = TargetFd THEN [family |-> "AF_INET", a |-> 2, port |-> 1]
                  ELSE NoConn]
    /\ matched = [fd \in Slots |-> IF fd = SourceFd THEN inet_ntop(V4(1)) ELSE ""]
    /\ dropped = 0
    /\ asserted = "none"
    /\ fresh = {}
    /\ evicted = {}
    /\ last = Event("OnConnect", ListenFd, NoFd, "ok", 1)
    /\ ran = << >>
    /\ quota = Quota(0, 2, 0, {}, 2)
    /\ inst = [p \in Procs |-> NotStarted]
    /\ flock = 0
    /\ wtr = [w \in Writers |-> Idle(<< >>)]
    /\ executed = << >>
    /\ refused = {}

NextPair ==
    \/ CallbackSelect
    \/ SelectFail
    \/ DispatchSkip
    \/ DispatchOnRead
    \/ DispatchOnWrite
    \/ DispatchOnConnect

\* the loop of CallbackSelect reaches the next reported descriptor
Dispatch ==
    \/ DispatchSkip
    \/ DispatchOnRead
    \/ DispatchOnWrite
    \/ DispatchOnConnect

\* select() reports fd writable (readable) ...
SelectWrite(fd) == CallbackSelect /\ fd \in twfds'
SelectRead(fd) == CallbackSelect /\ fd \in trfds'
\* ... and the kernel accepts bytes written to fd (has input on fd)
WriteAccepted(fd) == DispatchOnWrite /\ NextFd = fd /\ last'.k = "n"
ReadData(fd) == DispatchOnRead /\ NextFd = fd /\ last'.k = "data"

\* the states in which the kernel's steps can be taken
SelectEnabled ==
    pc = "loop" /\ ~crashed /\ keep_running /\ Batch = {} /\ quota.ready > 0
WriteEnabled(fd) ==
    /\ InBatch
    /\ NextFd = fd
    /\ ~ReadTurn
    /\ fd \in wfds
    /\ cb[fd].write_fn = "OnWrite"
    /\ cb[fd].len > 0
ReadEnabled(fd) ==
    /\ InBatch
    /\ NextFd = fd
    /\ ReadTurn
    /\ fd \in rfds
    /\ cb[fd].read_fn = "OnRead"
    /\ OnReadReads(Cur, fd)
    /\ quota.data > 0

\* weak fairness of Dispatch, which is enabled exactly in a batch, and
\* strong fairness of the kernel's steps, with ENABLED written out as the
\* predicates above
FairKernel ==
    /\ <>[]InBatch => []<><<Dispatch>>_vars
    /\ \A fd \in PairFds :
          /\ []<>(SelectEnabled /\ fd \in wfds) => []<><<SelectWrite(fd)>>_vars
          /\ []<>WriteEnabled(fd) => []<><<WriteAccepted(fd)>>_vars
          /\ []<>(SelectEnabled /\ fd \in rfds) => []<><<SelectRead(fd)>>_vars
          /\ []<>ReadEnabled(fd) => []<><<ReadData(fd)>>_vars

SpecPair == InitPair /\ [][NextPair]_vars /\ FairKernel

(***************************************************************************)
(* The control channel with two operators.  The state is the one after the *)
(* constructor and Listen, with no route configured.  An operator's open() *)
(* of the FIFO path succeeds while the proxy has its FIFO open; the FIFO   *)
(* reads as closed by the writers once every operator that opened it has   *)
(* closed it.  The steps of the operators interleave with the handlers of  *)
(* the proxy; an operator that opens, writes and closes while OnCommand is *)
(* between its read() and its close() is the set late of DispatchFifo.     *)
(***************************************************************************)
InitFifo ==
    /\ pc = "loop"
    /\ cb = [fd \in Slots |->
                CASE fd = FifoFd   -> [Callback EXCEPT !.read_fn = "OnCommand"]
                  [] fd = ListenFd -> [Callback EXCEPT !.read_fn = "OnConnect"]
                  [] OTHER -> Callback]
    /\ rfds = {FifoFd, ListenFd}
    /\ wfds = {}
    /\ route = << >>
    /\ keep_running = TRUE
    /\ open = 0..ListenFd
    /\ crashed = FALSE
    /\ pipe = FreshPipe
    /\ trfds = {}
    /\ twfds = {}
    /\ rd = [fd \in Slots |-> 0]
    /\ wr = [fd \in Slots |-> << >>]
    /\ conn = [fd \in Slots |-> NoConn]
    /\ matched = [fd \in Slots |-> ""]
    /\ dropped = 0
    /\ asserted = "none"
    /\ fresh = {}
    /\ evicted = {}
    /\ last = Event("Listen", NoFd, NoFd, "ok", 0)
    /\ ran = << >>
    /\ quota = Quota(0, 0, 0, {}, 2)
    /\ inst = [p \in Procs |-> NotStarted]
    /\ flock = 0
    /\ \E c1 \in WriterCmds(1), c2 \in WriterCmds(2) :
          wtr = [w \in Writers |-> Idle(IF w = 1 THEN c1 ELSE c2)]
    /\ executed = << >>
    /\ refused = {}

\* the operators whose descriptor refers to the FIFO the proxy reads
Attached == {w \in Writers : wtr[w].fifo = "cur" /\ wtr[w].pc \in {"open", "written"}}

\* open(path, O_WRONLY): returns once the FIFO has a reader
WOpen(w) ==
    /\ pc = "loop"
    /\ ~crashed
    /\ wtr[w].pc = "idle"
    /\ pipe.rd
    /\ wtr' = [wtr EXCEPT ![w].pc = "open", ![w].fifo = "cur"]
    /\ pipe' = [pipe EXCEPT !.eof = FALSE]
    /\ ran' = << >>
    /\ last' = Event("WOpen", NoFd, NoFd, "ok", w)
    /\ UNCHANGED << pc, cb, rfds, wfds, route, keep_running, open, crashed,
                    trfds, twfds, rd, wr, conn, matched, dropped, evicted, asserted, fresh,
                    quota, lockvars, executed, refused >>

\* write(): the command goes into the FIFO, or nowhere (EPIPE) when the
\* proxy has closed that FIFO
WWrite(w) ==
    /\ pc = "loop"
    /\ ~crashed
    /\ wtr[w].pc = "open"
    /\ IF wtr[w].fifo = "cur"
       THEN /\ pipe' = [pipe EXCEPT !.data = @ \o wtr[w].cmd]
            /\ wtr' = [wtr EXCEPT ![w].pc = "written"]
       ELSE /\ pipe' = pipe
            /\ wtr' = [wtr EXCEPT ![w].pc = "written", ![w].lost = TRUE]
    /\ ran' = << >>
    /\ last' = Event("WWrite", NoFd, NoFd, "ok", w)
    /\ UNCHANGED << pc, cb, rfds, wfds, route, keep_running, open, crashed,
                    trfds, twfds, rd, wr, conn, matched, dropped, evicted, asserted, fresh,
                    quota, lockvars, executed, refused >>

\* close(): the last operator to close makes the FIFO read as closed
WClose(w) ==
    /\ pc = "loop"
    /\ ~crashed
    /\ wtr[w].pc = "written"
    /\ wtr' = [wtr EXCEPT ![w].pc = "closed"]
    /\ pipe' = IF wtr[w].fifo = "cur"
               THEN [pipe EXCEPT !.eof = (Attached \ {w} = {})]
               ELSE pipe
    /\ ran' = << >>
    /\ last' = Event("WClose", NoFd, NoFd, "ok", w)
    /\ UNCHANGED << pc, cb, rfds, wfds, route, keep_running, open, crashed,
                    trfds, twfds, rd, wr, conn, matched, dropped, evicted, asserted, fresh,
                    quota, lockvars, executed, refused >>

\* OnCommand with the operators: when it closes, unlinks and re-creates the
\* FIFO, the operators that had it open are left with the old one, and the
\* commands of the late ones are in it.  read() on a FIFO returns data, 0
\* or EAGAIN.
DispatchFifo ==
    /\ UNCHANGED << lockvars, refused >>
    /\ InBatch
    /\ ReadTurn
    /\ NextFd \in rfds
    /\ cb[NextFd].read_fn = "OnCommand"
    /\ \E res \in {r \in CommandReads(Cur, NextFd) : r.k # "err"},
          late \in SUBSET {w \in Writers : wtr[w].pc = "idle"} :
          /\ res.k # "eof" => late = {}
          /\ Set(OnCommand(Cur, NextFd, res, "ok"))
          /\ executed' = IF res.k = "eof"
                         THEN Append(executed, TrimString(CString(cb[NextFd].buf, 1)))
                         ELSE executed
          /\ wtr' = [w \in Writers |->
                        IF res.k # "eof" THEN wtr[w]
                        ELSE IF w \in late
                        THEN [wtr[w] EXCEPT !.pc = "closed", !.fifo = "old", !.lost = TRUE]
                        ELSE IF wtr[w].fifo = "cur"
                        THEN [wtr[w] EXCEPT !.fifo = "old"]
                        ELSE wtr[w]]
          /\ last' = Event("OnCommand", NextFd, NoFd, res.k,
                            IF res.k = "eof" THEN Len(pipe.got) ELSE res.n)
    /\ Walked
    /\ UNCHANGED << pc, quota >>

NextFifo ==
    \/ CallbackSelect
    \/ SelectFail
    \/ DispatchOnConnect
    \/ DispatchFifo
    \/ ListenReturn
    \/ \E w \in Writers : WOpen(w)
    \/ \E w \in Writers : WWrite(w)
    \/ \E w \in Writers : WClose(w)

SpecFifo == InitFifo /\ [][NextFifo]_vars

(***************************************************************************)
(* A pair whose target never connects, under the fair kernel.  The state   *)
(* is the one after the first OnConnect, in which connect() returned       *)
(* EINPROGRESS.  While the connection is in progress read() and write() on *)
(* the target return EAGAIN; once it has failed the target is ready in     *)
(* both directions and read() and write() on it fail with the error of the *)
(* connection.  The client sends AsyncData bytes at most.                  *)
(***************************************************************************)
AsyncData == 1

InitAsync ==
    /\ pc = "loop"
    /\ cb = [fd \in Slots |->
                CASE fd = FifoFd   -> [Callback EXCEPT !.read_fn = "OnCommand"]
                  [] fd = ListenFd -> [Callback EXCEPT !.read_fn = "OnConnect"]
                  [] fd = SourceFd -> [Callback EXCEPT !.read_fn = "OnRead",
                                                       !.write_fn = "OnWrite",
                                                       !.peer_fd = TargetFd]
                  [] fd = TargetFd -> [Callback EXCEPT !.read_fn = "OnRead",
                                                       !.write_fn = "OnWrite",
                                                       !.peer_fd = SourceFd]
                  [] OTHER -> Callback]
    /\ rfds = {FifoFd, ListenFd, SourceFd, TargetFd}
    /\ wfds = {SourceFd, TargetFd}
    /\ route = << [Route("AF_INET", inet_ntop(V4(1)), "AF_INET", inet_ntop(V4(2)), 1)
                     EXCEPT !.source_fd = SourceFd] >>
    /\ keep_running = TRUE
    /\ open = 0..TargetFd
    /\ crashed = FALSE
    /\ pipe = FreshPipe
    /\ trfds = {}
    /\ twfds = {}
    /\ rd = [fd \in Slots |-> 0]
    /\ wr = [fd \in Slots |-> << >>]
    /\ conn = [fd \in Slots |->
                  IF fd = TargetFd THEN [family |-> "AF_INET", a |-> 2, port |-> 1]
                  ELSE NoConn]
    /\ matched = [fd \in Slots |-> IF fd = SourceFd THEN inet_ntop(V4(1)) ELSE ""]
    /\ dropped = 0
    /\ asserted = "none"
    /\ fresh = {}
    /\ evicted = {}
    /\ last = Event("OnConnect", ListenFd, NoFd, "ok", 1)
    /\ ran = << >>
    /\ quota = Quota(0, AsyncData, 0, {}, 2)
    /\ inst = [p \in Procs |-> NotStarted]
    /\ flock = 0
    /\ wtr = [w \in Writers |-> Idle(<< >>)]
    /\ executed = << >>
    /\ refused = {}

\* the connection to the target fails (refused, unreachable, timed out)
ConnectFails ==
    /\ pc = "loop"
    /\ ~crashed
    /\ TargetFd \in open
    /\ TargetFd \notin refused
    /\ refused' = {TargetFd}
    /\ ran' = << >>
    /\ last' = Event("connect", TargetFd, NoFd, "err", 0)
    /\ UNCHANGED << pc, cb, rfds, wfds, route, keep_running, open, crashed, pipe,
                    trfds, twfds, rd, wr, conn, matched, dropped, evicted, asserted,
                    fresh, quota, lockvars, wtr, executed >>

\* what read() and write() return on the target: EAGAIN while the
\* connection is in progress, the error once it has failed
TargetResult ==
    NextFd = TargetFd => last'.k \in {"none", IF TargetFd \in refused THEN "err" ELSE "again"}

AsyncRead == DispatchOnRead /\ TargetResult
AsyncWrite == DispatchOnWrite /\ TargetResult

NextAsync ==
    \/ CallbackSelect
    \/ SelectFail
    \/ DispatchSkip
    \/ AsyncRead
    \/ AsyncWrite
    \/ DispatchOnConnect
    \/ ConnectFails

\* the loop of CallbackSelect reaches the next reported descriptor
AsyncDispatch ==
    \/ DispatchSkip
    \/ AsyncRead
    \/ AsyncWrite
    \/ DispatchOnConnect

\* weak fairness of the dispatch loop; select() reports the target, ready
\* in both directions once its connection has failed, sooner or later
FairAsync ==
    /\ <>[]InBatch => []<><<AsyncDispatch>>_vars
    /\ []<>(SelectEnabled /\ TargetFd \in rfds /\ TargetFd \in refused)
          => []<><<SelectRead(TargetFd)>>_vars

SpecAsync == InitAsync /\ [][NextAsync]_vars /\ FairAsync

TypeOK ==
    /\ pc \in {"ctor", "listen", "loop", "done", "failed"}
    /\ rfds \subseteq Slots
    /\ wfds \subseteq Slots
    /\ \A fd \in Slots : cb[fd].len \in 0..RW_BUFSIZE

(***************************************************************************)
(* Properties                                                              *)
(***************************************************************************)
\* forwarding slots, the bytes read from a descriptor, the bytes staged on one
Fwd == {fd \in Slots : cb[fd].read_fn = "OnRead"}
Sent(fd) == [k \in 1..rd[fd] |-> Byte(fd, k)]
Staged(fd) == SubSeq(cb[fd].buf, 1, cb[fd].len)
ClientFds == {fd \in Slots : matched[fd] # ""}
RoutesBoundTo(fd) == {k \in 1..Len(route) : route[k].source_fd = fd}

\* C1: byte conservation.  For every registered forwarding descriptor X with
\* peer P, the bytes read from X are exactly the bytes written to P followed
\* by the bytes staged in P.buf[0..P.len), and 0 <= P.len <= RW_BUFSIZE.
C1_ByteConservation ==
    \A x \in Fwd :
        LET p == cb[x].peer_fd
        IN  /\ p \in Slots
            /\ cb[p].len \in 0..RW_BUFSIZE
            /\ Sent(x) = wr[p] \o Staged(p)

\* a partial write has left an unsent suffix staged
C1_Witness ==
    /\ last.fn = "OnWrite"
    /\ last.k = "n"
    /\ last.fd \in Fwd
    /\ cb[last.fd].len > 0
    /\ wr[last.fd] # << >>

\* C2: every byte read is written to the peer before the pair is closed, i.e.
\* while the event loop runs no slot is unregistered with bytes still staged.
C2_NoStagedByteDiscarded == pc = "loop" => dropped = 0

\* C3: pairing invariant.  A slot that carries any part of a forwarding
\* registration (OnRead, OnWrite or a peer) belongs to a complete pair: its
\* peer is another slot that points back, and both are open and have both
\* handlers installed and both interest bits set.
PairSlot(fd) ==
    cb[fd].read_fn = "OnRead" \/ cb[fd].write_fn = "OnWrite" \/ cb[fd].peer_fd # NoFd

Registered(fd) ==
    /\ fd \in open
    /\ fd \in rfds
    /\ fd \in wfds
    /\ cb[fd].read_fn = "OnRead"
    /\ cb[fd].write_fn = "OnWrite"

C3_PairingInvariant ==
    \A a \in Slots :
        PairSlot(a) =>
            LET b == cb[a].peer_fd
            IN  /\ b \in Slots
                /\ b # a
                /\ cb[b].peer_fd = a
                /\ Registered(a)
                /\ Registered(b)

\* one pair has just been torn down by EOF while another is established
C3_Witness ==
    /\ last.fn = "OnRead"
    /\ last.k = "eof"
    /\ \E a \in Slots : PairSlot(a)

\* C4: for every established pair with accepted client descriptor a, exactly
\* one route has source_fd = a.
C4_ExactlyOneRouteBound ==
    \A a \in ClientFds : Cardinality(RoutesBoundTo(a)) = 1

\* C5: no two established pairs have clients matched to the same route.
C5_OnePairPerRoute ==
    \A a, b \in ClientFds : matched[a] = matched[b] => a = b

\* C6: the routing table never holds two routes with the same source_ip.
C6_NoDuplicateSourceIp ==
    \A i, j \in 1..Len(route) : route[i].source_ip = route[j].source_ip => i = j

\* the route text whose source host resolves to 10.0.0.1 twice has been added
C6_Witness ==
    \E k \in 1..Len(route) :
        /\ route[k].source_ip = "10.0.0.1"
        /\ route[k].target_ip = "10.0.0.2"
        /\ route[k].target_port = 2

\* C7: for every descriptor, read_fn is non-null iff the descriptor is in
\* rfds, and write_fn is non-null iff it is in wfds.
C7_HandlerIffInterest ==
    \A fd \in Slots :
        /\ cb[fd].read_fn # "null" <=> fd \in rfds
        /\ cb[fd].write_fn # "null" <=> fd \in wfds

\* a pair has been unregistered while other descriptors stay registered
C7_Witness ==
    /\ last.fn = "OnWrite"
    /\ last.k = "err"
    /\ rfds # {}

\* C8: complete teardown.  When OnRead saw EOF or a hard error, or OnWrite
\* saw 0 or a hard error, then on return both descriptors of the pair are
\* closed, in neither interest set, their slots are reset and no route has
\* either as its source_fd.
TornDown ==
    \/ last.fn = "OnRead" /\ last.k \in {"eof", "err"}
    \/ last.fn = "OnWrite" /\ last.k \in {"zero", "err"}

C8_CompleteTeardown ==
    TornDown =>
        \A x \in {last.fd, last.peer} :
            /\ x \in Slots
            /\ x \notin open
            /\ x \notin rfds
            /\ x \notin wfds
            /\ cb[x] = Callback
            /\ RoutesBoundTo(x) = {}

\* OnWrite got 0 from write() and tore its pair down
C8_Witness ==
    /\ last.fn = "OnWrite"
    /\ last.k = "zero"
    /\ route # << >>

\* C9: CloseSock is idempotent and order independent on the slot array, the
\* interest sets and the routing table, and ignores an unset (-1) argument.
\* A call that aborts the process in an assert leaves no state to compare:
\* its outcome is the abort.
Prog(s) == IF s.crashed THEN << "abort" >> ELSE << s.cb, s.rfds, s.wfds, s.route >>
\* descriptors the proxy can own (0..2 are the standard streams, never
\* registered), and the first descriptor beyond the slot array
FdArgs == {NoFd} \cup (Slots \ {0, 1, 2}) \cup {FD_SETSIZE}

C9_TeardownIdempotent ==
    LET s == Cur
    IN  /\ Prog(CloseSock(s, NoFd, NoFd)) = Prog(s)
        /\ \A a, b \in FdArgs :
              LET once == CloseSock(s, a, b)
              IN  /\ Prog(CloseSock(once, a, b)) = Prog(once)
                  /\ Prog(CloseSock(s, b, a)) = Prog(once)

\* a pair is established and a route is bound to its client
C9_Witness ==
    \E k \in 1..Len(route) :
        /\ route[k].source_fd # NoFd
        /\ PairSlot(route[k].source_fd)

\* C10: route change evicts.  When the command just executed was an add for
\* a source_ip whose route was bound to descriptor F, the pair of F is closed
\* and unregistered, the route holds the new target (address text, family
\* and port) with source_fd none; and the next connection accepted from that
\* source IP is connected to the new target address and port.
ConnText(c) ==
    IF c.a \in 1..Len(V4Text) THEN V4Text[c.a] ELSE "0.0.0.0"

C10_RouteChangeEvicts ==
    \A e \in evicted :
        LET nr == e.new_route
            k == GetRoute(route, nr.source_ip)
        IN  /\ (last.fn = "OnCommand" /\ last.k = "eof") =>
                  /\ \A x \in {e.fd, e.peer} :
                        x \notin open /\ x \notin rfds /\ x \notin wfds
                        /\ cb[x] = Callback
                  /\ k # 0
                  /\ route[k].target_ip = nr.target_ip
                  /\ route[k].target_ip_family = nr.target_ip_family
                  /\ route[k].target_port = nr.target_port
                  /\ route[k].source_fd = NoFd
            /\ (/\ last.fn = "OnConnect"
                /\ last.k = "ok"
                /\ inet_ntop(V4(last.n)) = nr.source_ip
                /\ k # 0
                /\ route[k].source_fd # NoFd) =>
                  LET c == conn[cb[route[k].source_fd].peer_fd]
                  IN  /\ c.family = nr.target_ip_family
                      /\ ConnText(c) = nr.target_ip
                      /\ c.port = nr.target_port

\* the IPv4/IPv6 source addresses of a route text and the target it resolves to
SourceIps(c) ==
    LET l == getaddrinfo(c.source_host).list
    IN  {inet_ntop(l[i]) : i \in {j \in 1..Len(l) : IsInet(l[j])}}

\* the first IPv4/IPv6 address of the target's resolved list
TargetOf(c) ==
    LET first == Head(SelectSeq(getaddrinfo(c.target_host).list, IsInet))
    IN  [family |-> first.family, ip |-> inet_ntop(first), port |-> c.target_port]

Unbound(ip) ==
    GetRoute(route, ip) # 0 /\ route[GetRoute(route, ip)].source_fd = NoFd

\* C11: re-add merge.  Adding a route text all of whose source addresses are
\* already in the table with source_fd none leaves the number and order of
\* the routes unchanged, gives each of those routes the new target_ip,
\* target family and target_port, and changes nothing else: not their
\* source_ip, source family or source_fd, no other route, no slot and
\* neither interest set.
C11_ReAddMerge ==
    \A r \in 1..Len(RouteConfs) :
        LET c == RouteConfs[r]
            res == AddRouteConf(Cur, c)
        IN  (res.ok /\ \A ip \in SourceIps(c) : Unbound(ip)) =>
                /\ Len(res.s.route) = Len(route)
                /\ \A k \in 1..Len(route) :
                      res.s.route[k] =
                          IF route[k].source_ip \in SourceIps(c)
                          THEN [route[k] EXCEPT
                                   !.target_ip = TargetOf(c).ip,
                                   !.target_ip_family = TargetOf(c).family,
                                   !.target_port = TargetOf(c).port]
                          ELSE route[k]
                /\ res.s.cb = cb
                /\ res.s.rfds = rfds
                /\ res.s.wfds = wfds

\* C12: dynamic add.  A connection accepted from a source IP that has no
\* route is closed without registering a slot or touching a route; a
\* connection accepted from a source IP that has a route (in particular one
\* an add command has just created), all system calls succeeding and both
\* descriptors below FD_SETSIZE, yields an established pair connected to the
\* route's target, with the route's source_fd set to the accepted descriptor.
C12_Accepted ==
    /\ last'.fn = "OnConnect"
    /\ last'.k = "ok"
    /\ trfds' # trfds

C12_DynamicAddStep ==
    LET source_ip == inet_ntop(V4(last'.n))
        k == GetRoute(route, source_ip)
        source_fd == LowestFree(open)
        target_fd == LowestFree(open \cup {source_fd})
    IN  C12_Accepted =>
            /\ k = 0 =>
                  /\ cb' = cb
                  /\ rfds' = rfds
                  /\ wfds' = wfds
                  /\ route' = route
                  /\ open' = open
            /\ (k # 0 /\ source_fd < FD_SETSIZE /\ target_fd < FD_SETSIZE) =>
                  /\ cb'[source_fd] = [Callback EXCEPT !.read_fn = "OnRead",
                                                       !.write_fn = "OnWrite",
                                                       !.peer_fd = target_fd]
                  /\ cb'[target_fd] = [Callback EXCEPT !.read_fn = "OnRead",
                                                       !.write_fn = "OnWrite",
                                                       !.peer_fd = source_fd]
                  /\ route'[k].source_fd = source_fd
                  /\ conn'[target_fd].family = route[k].target_ip_family
                  /\ ConnText(conn'[target_fd]) = route[k].target_ip
                  /\ conn'[target_fd].port = route[k].target_port

C12_DynamicAdd == [][C12_DynamicAddStep]_vars

\* C13: a successful add.  When AddRoute returns true for a route text, then
\* for every IPv4/IPv6 address of the resolved source list the table holds
\* exactly one route with that source_ip, and that route has the given port
\* and the first IPv4/IPv6 address of the resolved target list as target_ip;
\* and AddRoute returns true whenever the text is well formed, the port is
\* not 0, both hosts resolve and each list has an IPv4/IPv6 address (in a
\* process that no assert has aborted).
Addable(c) ==
    /\ c.fmt
    /\ c.source_host # ""
    /\ c.target_host # ""
    /\ c.target_port # 0
    /\ getaddrinfo(c.target_host).status = 0
    /\ getaddrinfo(c.source_host).status = 0
    /\ SelectSeq(getaddrinfo(c.target_host).list, IsInet) # << >>
    /\ SourceIps(c) # {}

C13_AddPostcondition ==
    \A r \in 1..Len(RouteConfs) :
        LET c == RouteConfs[r]
            res == AddRouteConf(Cur, c)
        IN  /\ (Addable(c) /\ ~crashed) => res.ok
            /\ res.ok =>
                  \A ip \in SourceIps(c) :
                      /\ Cardinality({k \in 1..Len(res.s.route) :
                                         res.s.route[k].source_ip = ip}) = 1
                      /\ \A k \in 1..Len(res.s.route) :
                            res.s.route[k].source_ip = ip =>
                                /\ res.s.route[k].target_port = c.target_port
                                /\ res.s.route[k].target_ip = TargetOf(c).ip

\* the operator's add for a source host with two addresses has been executed
\* on a table that did not have the second
C13_Witness ==
    /\ last.fn = "OnCommand"
    /\ last.k = "eof"
    /\ \E i, j \in 1..Len(route) :
          /\ route[i].source_ip = "10.0.0.1"
          /\ route[j].source_ip = "10.0.0.2"
          /\ route[i].target_ip = "10.0.0.1"
          /\ route[j].target_ip = "10.0.0.1"
          /\ route[i].target_port = 2
          /\ route[j].target_port = 2

\* C14: a refused add changes nothing.  AddRoute returns false for a route
\* text that is malformed, has port 0 or a blank host, or whose target or
\* source host does not resolve or resolves to no IPv4/IPv6 address; and
\* whenever it returns false the routing table, the slots, the interest sets
\* and the open descriptors are as before the call.
C14_RefusedAddChangesNothing ==
    \A r \in 1..Len(RouteConfs) :
        LET c == RouteConfs[r]
            res == AddRouteConf(Cur, c)
        IN  /\ ~Addable(c) => ~res.ok
            /\ ~res.ok =>
                  /\ res.s.route = route
                  /\ res.s.cb = cb
                  /\ res.s.rfds = rfds
                  /\ res.s.wfds = wfds
                  /\ res.s.open = open
                  /\ res.s.keep_running = keep_running

\* the operator's add with an unresolvable target has been executed while a
\* pair is established and bound to a route
C14_Witness ==
    /\ last.fn = "OnCommand"
    /\ last.k = "eof"
    /\ ran = << << AddSp, RouteUnit + 6 >> >>
    /\ \E k \in 1..Len(route) :
          route[k].source_fd # NoFd /\ PairSlot(route[k].source_fd)

\* C15: command accumulation.  While the writer has not closed the FIFO,
\* OnCommand only appends what read() returned to the slot buffer and
\* executes nothing, on data and on a transient error alike; on the read
\* that returns 0 it executes exactly one command, the trimmed concatenation
\* of all chunks received since the FIFO was opened (for a command shorter
\* than the buffer, no read having failed with a hard error).
RECURSIVE Flatten(_)
Flatten(chunks) ==
    IF chunks = << >> THEN << >> ELSE Head(chunks) \o Flatten(Tail(chunks))

C15_Dispatched ==
    /\ last'.fn = "OnCommand"
    /\ trfds' # trfds

C15_CommandStep ==
    LET fd == last'.fd
        c == cb[fd]
    IN  C15_Dispatched =>
            /\ (last'.k = "eof" /\ ~pipe.hard /\ Len(Flatten(pipe.got)) < RW_BUFSIZE) =>
                  ran' = << TrimString(Flatten(pipe.got)) >>
            /\ last'.k = "data" =>
                  /\ ran' = << >>
                  /\ cb'[fd].len = c.len + last'.n
                  /\ SubSeq(cb'[fd].buf, 1, c.len) = SubSeq(c.buf, 1, c.len)
                  /\ SubSeq(cb'[fd].buf, c.len + 1, c.len + last'.n)
                        = SubSeq(pipe.data, 1, last'.n)
                  /\ route' = route
                  /\ keep_running' = keep_running
                  /\ open' = open
            /\ last'.k = "again" =>
                  /\ ran' = << >>
                  /\ cb' = cb
                  /\ route' = route
                  /\ keep_running' = keep_running
                  /\ open' = open

C15_CommandAccumulation == [][C15_CommandStep]_vars

\* an add command that arrived in two partial reads has been executed
C15_Witness ==
    /\ last.fn = "OnCommand"
    /\ last.k = "eof"
    /\ last.n = 2
    /\ ran = << << AddSp, RouteUnit + 3 >> >>
    /\ Len(route) >= 2

(***************************************************************************)
(* Exit command                                                            *)
(***************************************************************************)
IsExit(cmd) == cmd \in {<< ExitLower >>, << ExitUpper >>}

\* the step that led to this state was an OnCommand that executed exit
C16_ExitRan ==
    /\ last.fn = "OnCommand"
    /\ \E i \in DOMAIN ran : IsExit(ran[i])

C16_Stopping == pc = "loop" /\ ~keep_running

C16_Left == Cardinality(trfds) + Cardinality(twfds)

C16_ExitStep ==
    /\ C16_ExitRan' => ~keep_running'
    /\ (~keep_running /\ pc \in {"loop", "done"}) => ~keep_running'
    /\ C16_Stopping =>
          /\ last'.fn # "select"
          /\ IF Batch # {}
             THEN pc' = "loop" /\ C16_Left' = C16_Left - 1
             ELSE pc' = "done" /\ (~crashed' => ExitCode' = "0")

\* no handler of the remaining batch aborts the process
C16_NoAbort == C16_Stopping => ~crashed'

\* C16: once OnCommand has executed exit, keep_running is false and stays
\* false; the dispatch loop walks the rest of the pending select() result one
\* descriptor at a time, no further select() is issued, and the process ends
\* with Listen returning true and exit code 0.
C16_ExitCommand == [][C16_ExitStep /\ C16_NoAbort]_vars

\* the same without the requirement that no handler aborts
C16_ExitSafety == [][C16_ExitStep]_vars

\* exit was executed with two more descriptors pending in the batch
C16_Witness ==
    /\ C16_ExitRan
    /\ C16_Stopping
    /\ C16_Left >= 2

(***************************************************************************)
(* Shutdown                                                                *)
(***************************************************************************)
C17_ShutdownStep ==
    (pc = "loop" /\ pc' = "done") =>
        /\ rfds' = {}
        /\ wfds' = {}
        /\ \A fd \in Slots : cb'[fd] = Callback
        /\ \A fd \in Slots :
              (fd \in rfds \/ fd \in wfds \/ cb[fd] # Callback) => fd \notin open'

\* C17: when the loop has ended after exit and main destroys the proxy, every
\* descriptor that was registered (pairs, listener, FIFO) is closed, both
\* interest sets are empty and every slot is default.
C17_ShutdownClosesAll == [][C17_ShutdownStep]_vars

\* a shutdown that closed the FIFO, the listener and both descriptors of a pair
C17_Witness ==
    /\ pc = "done"
    /\ last.fn = "Listen"
    /\ last.k = "return"
    /\ last.n >= 4
    /\ rfds = {}
    /\ open \cap (Slots \ {0, 1, 2, 3}) = {}

(***************************************************************************)
(* Empty and unknown commands                                              *)
(***************************************************************************)
\* the trimmed command is empty, or neither exit nor an add
C18_Ignored(cmd) ==
    \/ cmd = << >>
    \/ (~IsExit(cmd) /\ Head(cmd) # AddSp)

\* the slots that belong to pairs and to the listener
C18_Kept == {fd \in Slots : cb[fd].read_fn \in {"OnRead", "OnConnect"}}

C18_IgnoredStep ==
    (/\ last'.fn = "OnCommand"
     /\ trfds' # trfds
     /\ Len(ran') = 1
     /\ C18_Ignored(ran'[1])) =>
        /\ route' = route
        /\ keep_running' = keep_running
        /\ \A fd \in C18_Kept :
              /\ cb'[fd] = cb[fd]
              /\ (fd \in rfds') = (fd \in rfds)
              /\ (fd \in wfds') = (fd \in wfds)
              /\ fd \in open'
        /\ \A fd \in Slots \ C18_Kept :
              cb'[fd].read_fn \notin {"OnRead", "OnConnect"}

\* C18: an OnCommand that executes an empty or unknown command leaves the
\* routing table, the slots and registrations of every pair and of the
\* listener, and keep_running as they were.
C18_UnknownCommandIgnored == [][C18_IgnoredStep]_vars

\* an unknown command was executed while a pair was established and the
\* proxy was running
C18_Witness ==
    /\ last.fn = "OnCommand"
    /\ last.k = "eof"
    /\ ran = << << Junk >> >>
    /\ keep_running
    /\ route # << >>
    /\ \E fd \in Slots : cb[fd].read_fn = "OnRead" /\ cb[fd].peer_fd # NoFd
    /\ \E fd \in Slots : cb[fd].read_fn = "OnConnect" /\ fd \in rfds

\* an empty command was executed
C18_WitnessEmpty ==
    /\ last.fn = "OnCommand"
    /\ last.k = "eof"
    /\ ran = << << >> >>
    /\ keep_running

(***************************************************************************)
(* Startup refusal                                                         *)
(***************************************************************************)
\* what the proxy was started with is a reason to refuse: a running
\* instance, a configuration without one of its sections or without a port,
\* a port outside 1..65535, or a FIFO that cannot be made or opened
C20_Refused(in) ==
    \/ in.lock = "held"
    \/ ~in.cfg.proxy
    \/ ~in.cfg.hasroutes
    \/ ~in.cfg.hasport
    \/ in.cfg.port \notin 1..65535
    \/ in.mk # "ok"

C20_RefusalStep ==
    /\ (pc = "ctor" /\ pc' = "listen" /\ C20_Refused(last'.in[1])) =>
          ~keep_running'
    /\ (pc = "listen" /\ pc' # "listen" /\ C20_Refused(last.in[1])) =>
          /\ ~keep_running'
          /\ pc' = "failed"
          /\ ExitCode' = "1"
          /\ open' \subseteq open
          /\ rfds' = {}
          /\ wfds' = {}
          /\ \A fd \in Slots : cb'[fd].read_fn # "OnConnect"

\* C20: when the guard reports a running instance, the configuration is
\* invalid, or the FIFO cannot be created or opened, the constructor leaves
\* keep_running false, and Listen returns false without opening a listening
\* socket or entering the loop: the exit code is 1.
C20_StartupRefusal == [][C20_RefusalStep]_vars

\* Listen has returned false after a start with a port above 65535, and
\* nothing else wrong
C20_Witness ==
    /\ pc = "failed"
    /\ last.fn = "Listen"
    /\ last.k = "fail"
    /\ last.in[1].lock = "free"
    /\ last.in[1].mk = "ok"
    /\ last.in[1].cfg = ConfigFile(65536, << 1 >>)
    /\ ExitCode = "1"

(***************************************************************************)
(* Single instance                                                         *)
(***************************************************************************)
C19_Listening(p) == inst[p].pc = "loop"

\* the instance found the lock held by another process
C19_Lost(p) == inst[p].lock \in {"EACCES", "EAGAIN"}

\* an instance refused by the guard does not run: past the constructor its
\* keep_running is false, it never listens and it ends with exit code 1
C19_LoserRefused ==
    \A p \in Procs :
        C19_Lost(p) =>
            /\ inst[p].pc \in {"ctor", "listen", "exited"}
            /\ ~inst[p].keep_running
            /\ inst[p].pc = "exited" => inst[p].code = "1"

\* C19: of two instances with the same base name that could both open the
\* lock file, at most one is listening at any time, and the one that finds
\* the lock held (EACCES/EAGAIN) has keep_running false, gets false from
\* Listen and exits with code 1.
C19_SingleInstance ==
    /\ (\A p \in Procs : inst[p].lock # "noopen") =>
          ~(C19_Listening(1) /\ C19_Listening(2))
    /\ C19_LoserRefused

\* C19 as amended: the same, for two instances whose lock file could be
\* opened and whose fcntl(F_SETLK) either took the lock or failed with
\* EACCES/EAGAIN.
C19_SingleInstanceAmended ==
    /\ (\A p \in Procs : inst[p].lock \notin {"noopen", "ENOLCK"}) =>
          ~(C19_Listening(1) /\ C19_Listening(2))
    /\ C19_LoserRefused

\* one instance holds the lock and listens, the other found the lock held
\* and has ended with exit code 1
C19_Witness ==
    \E p, q \in Procs :
        /\ inst[p].lock = "ok"
        /\ flock = p
        /\ C19_Listening(p)
        /\ C19_Lost(q)
        /\ inst[q].pc = "exited"
        /\ inst[q].code = "1"

(***************************************************************************)
(* Routes of the configuration file                                        *)
(***************************************************************************)
\* a route value that is malformed or names a host that does not resolve
C21_Bad(c) ==
    \/ ~c.fmt
    \/ c.source_host = ""
    \/ c.target_host = ""
    \/ getaddrinfo(c.source_host).status # 0
    \/ getaddrinfo(c.target_host).status # 0

\* the file is one that only its routes can make the proxy refuse
C21_Readable(in) ==
    /\ in.lock = "free"
    /\ in.cfg.proxy
    /\ in.cfg.hasport
    /\ in.cfg.port \in 1..65535
    /\ in.cfg.hasroutes

C21_BadAt(cfg) == {i \in DOMAIN cfg.routes : C21_Bad(RouteConfs[cfg.routes[i]])}

C21_RouteStep ==
    /\ (/\ pc = "ctor"
        /\ pc' = "listen"
        /\ C21_Readable(last'.in[1])
        /\ C21_BadAt(last'.in[1].cfg) # {}) =>
           /\ ~keep_running'
           /\ Len(route') < Min(C21_BadAt(last'.in[1].cfg))
    /\ (/\ pc = "listen"
        /\ pc' # "listen"
        /\ C21_Readable(last.in[1])
        /\ C21_BadAt(last.in[1].cfg) # {}) =>
           /\ pc' = "failed"
           /\ ExitCode' = "1"

\* C21: a configuration with a malformed or unresolvable route value makes
\* the proxy refuse to start, wherever the value is in the routes section
\* and whether or not a newline follows the last line of the file; no route
\* after the offending one is visited.
C21_BadRouteRefused == [][C21_RouteStep]_vars

\* the same for files that end with a newline
C21_BadRouteRefusedNl ==
    [][last'.in # << >> /\ last'.in[1].cfg.nl => C21_RouteStep]_vars

(***************************************************************************)
(* Forward progress                                                        *)
(***************************************************************************)
\* the reactor no longer runs batches
C22_Stopped == crashed \/ pc # "loop" \/ ~keep_running

\* C22: under a fair kernel, staged bytes of an established pair are
\* eventually all written or the pair is torn down; and once the buffer of
\* fd is empty, input pending on the peer is eventually read into it.
C22_ForwardProgress ==
    \A fd \in PairFds :
       /\ (Registered(fd) /\ cb[fd].len > 0)
             ~> (cb[fd].len = 0 \/ ~Registered(fd) \/ C22_Stopped)
       /\ (Registered(fd) /\ cb[fd].len = 0 /\ quota.data > 0)
             ~> (cb[fd].len > 0 \/ ~Registered(fd) \/ C22_Stopped \/ quota.data = 0)

\* a staged buffer has been written out in two writes, and its pair stands
C22_Witness ==
    \E fd \in PairFds :
       /\ Registered(fd)
       /\ last.fn = "OnWrite"
       /\ last.fd = fd
       /\ last.k = "n"
       /\ cb[fd].len = 0
       /\ Len(wr[fd]) = 2
       /\ last.n = 1

\* the state the pair model starts in is one the proxy reaches: the
\* constructor, Listen and one OnConnect lead to it
C22_Established ==
    /\ pc = "loop"
    /\ Batch = {}
    /\ keep_running
    /\ ~crashed
    /\ cb = [fd \in Slots |->
                CASE fd = FifoFd   -> [Callback EXCEPT !.read_fn = "OnCommand"]
                  [] fd = ListenFd -> [Callback EXCEPT !.read_fn = "OnConnect"]
                  [] fd = SourceFd -> [Callback EXCEPT !.read_fn = "OnRead",
                                                       !.write_fn = "OnWrite",
                                                       !.peer_fd = TargetFd]
                  [] fd = TargetFd -> [Callback EXCEPT !.read_fn = "OnRead",
                                                       !.write_fn = "OnWrite",
                                                       !.peer_fd = SourceFd]
                  [] OTHER -> Callback]
    /\ rfds = {FifoFd, ListenFd, SourceFd, TargetFd}
    /\ wfds = {SourceFd, TargetFd}
    /\ route = << [Route("AF_INET", inet_ntop(V4(1)), "AF_INET", inet_ntop(V4(2)), 1)
                     EXCEPT !.source_fd = SourceFd] >>
    /\ open = 0..TargetFd
    /\ pipe = FreshPipe
    /\ rd = [fd \in Slots |-> 0]
    /\ wr = [fd \in Slots |-> << >>]
    /\ conn = [fd \in Slots |->
                  IF fd = TargetFd THEN [family |-> "AF_INET", a |-> 2, port |-> 1]
                  ELSE NoConn]
    /\ matched = [fd \in Slots |-> IF fd = SourceFd THEN inet_ntop(V4(1)) ELSE ""]
    /\ dropped = 0
    /\ evicted = {}
    /\ last.fn = "OnConnect"
    /\ last.k = "ok"
    /\ quota.acc = 0
    /\ quota.data >= 2

(***************************************************************************)
(* One buffer per direction                                                *)
(***************************************************************************)
C23_Dispatched ==
    /\ last'.fn = "OnRead"
    /\ trfds' # trfds

C23_Step ==
    LET peer == last'.peer
    IN  (C23_Dispatched /\ peer >= 0) =>
           /\ cb[peer].len # 0 =>
                 /\ last'.k = "none"
                 /\ cb' = cb
                 /\ rfds' = rfds
                 /\ wfds' = wfds
                 /\ route' = route
                 /\ open' = open
                 /\ keep_running' = keep_running
                 /\ crashed' = crashed
                 /\ pipe' = pipe
                 /\ rd' = rd
                 /\ wr' = wr
                 /\ conn' = conn
                 /\ quota' = quota
           /\ (last'.k # "none" \/ rd' # rd \/ cb'[peer].buf # cb[peer].buf) =>
                 cb[peer].len = 0

\* C23: an OnRead(fd) dispatched while the peer's slot has len # 0 makes no
\* read call and changes no state; bytes are read into the peer's buffer
\* only when its len is 0.
C23_ReadOnlyIntoEmpty == [][C23_Step]_vars

\* OnRead has returned without reading because the peer had bytes staged
C23_Witness ==
    /\ last.fn = "OnRead"
    /\ last.k = "none"
    /\ last.peer >= 0
    /\ cb[last.peer].len > 0
    /\ Registered(last.fd)
    /\ quota.data > 0

(***************************************************************************)
(* Order of dispatch                                                       *)
(***************************************************************************)
\* the loop of CallbackSelect has walked a reported bit: e is what it did
C24_Walk(e) == e.fn \in {"OnRead", "OnWrite", "OnConnect", "OnCommand", "skip"}
\* the direction of the bit: 0 for read, 1 for write
C24_Dir(e) == IF e.fn = "OnWrite" \/ (e.fn = "skip" /\ e.k = "w") THEN 1 ELSE 0

C24_Step ==
    (C24_Walk(last') /\ (trfds' # trfds \/ twfds' # twfds)) =>
       /\ last'.fd >= 3
       /\ \A fd \in Batch : last'.fd <= fd
       /\ (last'.fd \in trfds /\ last'.fd \in twfds) => C24_Dir(last') = 0
       /\ C24_Walk(last) =>
             \/ last.fd < last'.fd
             \/ last.fd = last'.fd /\ C24_Dir(last) = 0 /\ C24_Dir(last') = 1

\* C24: within one batch the handlers are dispatched in strictly ascending
\* descriptor order, the read handler before the write handler of the same
\* descriptor; no descriptor below 3 is dispatched.
C24_AscendingDispatch == [][C24_Step]_vars

\* OnRead has run for a descriptor whose write bit and a higher descriptor's
\* read bit are still to be walked in the same batch
C24_Witness ==
    /\ InBatch
    /\ last.fn = "OnRead"
    /\ last.fd \in twfds
    /\ \E fd \in trfds : fd > last.fd

(***************************************************************************)
(* Re-check before dispatch                                                *)
(***************************************************************************)
\* slot fd holds a registration
C25_Held(c) == c.read_fn # "null" \/ c.write_fn # "null"

C25_Step ==
    InBatch =>
       \* a registration removed by this step is out of both live sets
       /\ \A fd \in Slots :
             (C25_Held(cb[fd]) /\ ~C25_Held(cb'[fd])) =>
                 fd \notin rfds' /\ fd \notin wfds'
       \* a reported bit whose descriptor is out of the live set is passed over
       /\ (IF ReadTurn THEN NextFd \notin rfds ELSE NextFd \notin wfds) =>
             /\ last'.fn = "skip"
             /\ last'.fd = NextFd
             /\ cb' = cb
             /\ rfds' = rfds
             /\ wfds' = wfds
             /\ route' = route
             /\ open' = open
             /\ keep_running' = keep_running
             /\ pipe' = pipe
             /\ rd' = rd
             /\ wr' = wr
       \* a handler that is called is the one the slot holds now
       /\ last'.fn \in {"OnRead", "OnConnect", "OnCommand"} =>
             /\ last'.fd \in rfds
             /\ cb[last'.fd].read_fn = last'.fn
       /\ last'.fn = "OnWrite" =>
             /\ last'.fd \in wfds
             /\ cb[last'.fd].write_fn = last'.fn

\* C25: once a handler has unregistered a descriptor during a batch, the
\* reactor calls no read or write handler of that registration for it in
\* the rest of the batch: the descriptor is out of the live sets, and a
\* reported bit is dispatched only if its descriptor is in the live set.
C25_RecheckBeforeDispatch == [][C25_Step]_vars

\* the reactor has passed over the reported read bit of a descriptor that an
\* earlier handler of the batch closed and unregistered
C25_Witness ==
    /\ last.fn = "skip"
    /\ last.k = "r"
    /\ last.fd \notin open
    /\ ~C25_Held(cb[last.fd])
    /\ \E fd \in Slots : Registered(fd)

(***************************************************************************)
(* Failures of accept                                                      *)
(***************************************************************************)
C26_Step ==
    (/\ last'.fn = "OnConnect"
     /\ trfds' # trfds
     /\ last'.k = "again") =>
        /\ cb' = cb
        /\ rfds' = rfds
        /\ wfds' = wfds
        /\ route' = route
        /\ open' = open
        /\ keep_running' = keep_running
        /\ last'.fd \in open'
        /\ last'.fd \in rfds'
        /\ cb'[last'.fd].read_fn = "OnConnect"

\* C26: when accept fails with EAGAIN or EINTR, OnConnect returns with all
\* state unchanged: the listener stays open and registered, so that later
\* connections are still accepted.
C26_TransientAcceptKeepsListener == [][C26_Step]_vars

(***************************************************************************)
(* Failures of OnConnect after accept                                      *)
(***************************************************************************)
\* OnConnect was dispatched, accept returned a descriptor, and the
\* invocation ended without registering a pair
C27_Failed ==
    /\ last'.fn = "OnConnect"
    /\ trfds' # trfds
    /\ last'.k \in {"ok", "step"}
    /\ \A fd \in Slots : cb'[fd].read_fn = "OnRead" => cb[fd].read_fn = "OnRead"

C27_Kept ==
    /\ open' = open
    /\ cb' = cb
    /\ rfds' = rfds
    /\ wfds' = wfds
    /\ route' = route
    /\ last'.fd \in rfds'
    /\ cb'[last'.fd].read_fn = "OnConnect"

\* C27: when a step of OnConnect after a successful accept fails, only the
\* descriptors created by the invocation are closed: the listener stays
\* registered, no slot is registered for the connection, and no route's
\* source_fd and no existing pair changes; the proxy keeps running.
C27_FailedConnectChangesNothing == [][C27_Failed => C27_Kept /\ ~crashed']_vars

\* the same, for the failures that do not abort the process
C27_FailedConnectKept == [][C27_Failed /\ ~crashed' => C27_Kept]_vars

\* connect has failed for a second connection while a pair is established
C27_Witness ==
    /\ last.fn = "OnConnect"
    /\ last.k = "step"
    /\ ~crashed
    /\ \E fd \in Slots : Registered(fd) /\ RoutesBoundTo(fd) # {}
    /\ cb[last.fd].read_fn = "OnConnect"

(***************************************************************************)
(* The descriptor ceiling                                                  *)
(***************************************************************************)
\* OnConnect was dispatched and accept or socket returned a descriptor at
\* or above FD_SETSIZE
C28_AtCeiling ==
    /\ last'.fn = "OnConnect"
    /\ trfds' # trfds
    /\ last'.k \in {"ok", "step"}
    /\ \/ LowestFree(open) >= FD_SETSIZE
       \/ /\ last'.k = "ok"
          /\ GetRoute(route, inet_ntop(V4(last'.n))) # 0
          /\ HasFree(open \cup {LowestFree(open)})
          /\ LowestFree(open \cup {LowestFree(open)}) >= FD_SETSIZE

C28_Step ==
    C28_AtCeiling =>
        /\ ~crashed'
        /\ open' = open
        /\ cb' = cb
        /\ rfds' = rfds
        /\ wfds' = wfds
        /\ keep_running' = keep_running

\* every descriptor in the interest sets is below FD_SETSIZE
C28_InterestBelowCeiling == \A fd \in rfds \cup wfds : fd < FD_SETSIZE

\* C28: when accept or the target socket call returns a descriptor at or
\* above FD_SETSIZE, the descriptor is closed, nothing is registered, no
\* assertion fails and the reactor keeps running; every descriptor in rfds
\* and wfds is below FD_SETSIZE.
C28_DescriptorCeiling == [][C28_Step /\ C28_InterestBelowCeiling']_vars

(***************************************************************************)
(* Transient errors of read and write                                      *)
(***************************************************************************)
C29_Step ==
    (/\ last'.fn \in {"OnRead", "OnWrite"}
     /\ trfds' # trfds \/ twfds' # twfds
     /\ last'.k = "again") =>
        /\ cb' = cb
        /\ rfds' = rfds
        /\ wfds' = wfds
        /\ route' = route
        /\ open' = open
        /\ rd' = rd
        /\ wr' = wr
        /\ ~crashed'
        /\ cb'[last'.fd].read_fn = "OnRead"
        /\ cb'[last'.fd].write_fn = "OnWrite"
        /\ cb'[last'.fd].peer_fd = last'.peer
        /\ cb'[last'.peer].peer_fd = last'.fd

\* C29: a read in OnRead or a write in OnWrite that fails with EAGAIN or
\* EINTR leaves every slot, both interest sets and the routing table
\* unchanged; the pair stays established.
C29_TransientErrorKeepsPair == [][C29_Step]_vars

\* a read failed with a transient error while bytes for the same
\* descriptor were staged, and the pair stands
C29_Witness ==
    /\ last.fn = "OnRead"
    /\ last.k = "again"
    /\ Registered(last.fd)
    /\ Registered(last.peer)
    /\ cb[last.fd].len > 0

\* a write of staged bytes failed with a transient error
C29_WitnessWrite ==
    /\ last.fn = "OnWrite"
    /\ last.k = "again"
    /\ Registered(last.fd)
    /\ cb[last.fd].len > 0

(***************************************************************************)
(* The control channel                                                     *)
(***************************************************************************)
C30_Fifos == {fd \in Slots : cb[fd].read_fn = "OnCommand"}

\* one FIFO descriptor is registered for reading, with OnCommand only
C30_Registered ==
    /\ Cardinality(C30_Fifos) = 1
    /\ \A fd \in C30_Fifos :
          /\ fd \in open
          /\ fd \in rfds
          /\ fd \notin wfds
          /\ cb[fd].write_fn = "null"
          /\ cb[fd].peer_fd = NoFd

C30_Armed ==
    /\ C30_Registered
    /\ \A fd \in C30_Fifos : cb[fd].len = 0

\* the reactor is about to call select()
C30_AboutToWait == pc = "loop" /\ ~crashed /\ keep_running /\ Batch = {}
\* OnCommand has just executed a command other than exit
C30_Processed == pc = "loop" /\ ~crashed /\ ran # << >> /\ ~IsExit(ran[1])

\* C30: after OnCommand has processed a command, and whenever the reactor is
\* about to wait, exactly one FIFO descriptor is registered with OnCommand
\* as its read handler, no write handler, no peer and len = 0.
C30_ControlChannelArmed == (C30_AboutToWait \/ C30_Processed) => C30_Armed

\* what holds of it: while the FIFO could be reopened it is registered, and
\* its buffer is empty after every command
C30_ArmedWhileOpen ==
    /\ (C30_AboutToWait \/ C30_Processed) /\ pipe.rd => C30_Registered
    /\ C30_Processed /\ pipe.rd => C30_Armed
    /\ (pc = "loop" /\ ~crashed) => (C30_Fifos = {} <=> ~pipe.rd)

\* a command was executed and the FIFO could not be reopened
C30_Unarmed ==
    /\ C30_Processed
    /\ keep_running
    /\ C30_Fifos = {}

\* the reactor waits with a part of a command in the buffer
C30_Partial ==
    /\ C30_AboutToWait
    /\ \E fd \in C30_Fifos : cb[fd].len > 0

(***************************************************************************)
(* Causes of a teardown                                                    *)
(***************************************************************************)
\* fd is a descriptor of an established pair
C31_Pair(fd) == cb[fd].read_fn = "OnRead" /\ fd \in open

\* the step closes or unregisters fd, or takes its peer from it
C31_Gone(fd) ==
    \/ fd \notin open'
    \/ fd \notin rfds'
    \/ fd \notin wfds'
    \/ cb'[fd].read_fn # "OnRead"
    \/ cb'[fd].write_fn # "OnWrite"
    \/ cb'[fd].peer_fd # cb[fd].peer_fd

\* OnRead or OnWrite saw EOF or a hard error on fd or on its peer
C31_Own(fd) ==
    /\ last'.fn \in {"OnRead", "OnWrite"}
    /\ trfds' # trfds \/ twfds' # twfds
    /\ last'.fd \in {fd, cb[fd].peer_fd}
    /\ last'.k \in {"eof", "err", "zero"}

\* an add command was executed for the source_ip of the route the pair of fd
\* is bound to
C31_Add(fd) ==
    /\ last'.fn = "OnCommand"
    /\ ran' # << >>
    /\ Len(ran'[1]) >= 2
    /\ ran'[1][1] = AddSp
    /\ IsRouteUnit(ran'[1][2])
    /\ \E k \in 1..Len(route) :
          /\ route[k].source_fd \in {fd, cb[fd].peer_fd}
          /\ route[k].source_ip \in SourceIps(RouteConfs[ran'[1][2] - RouteUnit])

\* the destructor runs
C31_Shutdown == pc' \in {"done", "failed"}

C31_Step ==
    \A fd \in Slots :
       (C31_Pair(fd) /\ C31_Gone(fd)) =>
           C31_Own(fd) \/ C31_Add(fd) \/ C31_Shutdown

\* C31: an established pair is torn down only by EOF or a hard error that
\* OnRead or OnWrite observes on one of its two descriptors, by an add
\* command for the source_ip of the route it is bound to, or by shutdown.
C31_TeardownCauses == [][C31_Step]_vars

\* an add for another source_ip was executed and left an established,
\* route-bound pair standing
C31_Witness ==
    /\ last.fn = "OnCommand"
    /\ ran # << >>
    /\ Len(ran[1]) >= 2
    /\ ran[1][1] = AddSp
    /\ IsRouteUnit(ran[1][2])
    /\ \E fd \in Slots :
          /\ Registered(fd)
          /\ RoutesBoundTo(fd) # {}
          /\ \A k \in RoutesBoundTo(fd) :
                route[k].source_ip \notin SourceIps(RouteConfs[ran[1][2] - RouteUnit])
    /\ Len(route) >= 2

\* a pair was torn down by EOF on one of its descriptors while another pair
\* stands
C31_WitnessOther ==
    /\ last.fn = "OnRead"
    /\ last.k = "eof"
    /\ last.fd \notin open
    /\ \E fd \in Slots : Registered(fd)

(***************************************************************************)
(* Reuse of a descriptor number                                            *)
(***************************************************************************)
C32_Step ==
    \A fd \in Slots :
       \* a slot that is unregistered is a default slot
       /\ (C25_Held(cb[fd]) /\ ~C25_Held(cb'[fd])) => cb'[fd] = Callback
       \* a slot registered for a new connection starts empty
       /\ (/\ cb'[fd].read_fn = "OnRead"
           /\ cb[fd].read_fn # "OnRead" \/ rd'[fd] < rd[fd]) =>
              /\ cb'[fd].len = 0
              /\ cb'[fd].buf = ZeroBuf
              /\ wr'[fd] = << >>
              /\ rd'[fd] = 0
       \* what has been written on it was read from its peer since then
       /\ (cb'[fd].read_fn = "OnRead" /\ cb'[fd].peer_fd \in Slots) =>
              LET p == cb'[fd].peer_fd
              IN  /\ Len(wr'[fd]) + cb'[fd].len = rd'[p]
                  /\ \A k \in 1..Len(wr'[fd]) : wr'[fd][k] = Byte(p, k)
                  /\ \A k \in 1..cb'[fd].len :
                        cb'[fd].buf[k] = Byte(p, Len(wr'[fd]) + k)

\* C32: after a descriptor is unregistered its slot equals a default slot, so
\* a later connection on the same descriptor number starts with an empty
\* buffer: every byte written on a pair's descriptor was read from its
\* current peer during the lifetime of the pair.
C32_SafeDescriptorReuse == [][C32_Step]_vars

\* the second of two accepted connections has been registered on the
\* descriptor numbers of the first, which was torn down with bytes staged
C32_Witness ==
    /\ last.fn = "OnConnect"
    /\ last.k = "ok"
    /\ quota.acc = 0
    /\ quota.data > 0
    /\ dropped > 0
    /\ open = 0..TargetFd
    /\ Registered(SourceFd)
    /\ Registered(TargetFd)

\* C33: the asserts of CallbackAdd hold at every call: for the listener at
\* startup, for both descriptors of a new pair, for the FIFO at startup and
\* when OnCommand registers it again, reused descriptor numbers included, the
\* descriptor is in 0..FD_SETSIZE-1 and its slot is empty; the process is
\* never aborted by an assert of CallbackAdd.
C33_RegisterPrecondition == asserted # "CallbackAdd"

\* OnCommand has executed a command and registered the FIFO again on the
\* descriptor number it had before, next to an established pair
C33_Witness ==
    /\ last.fn = "OnCommand"
    /\ last.k = "eof"
    /\ ~crashed
    /\ cb[last.fd].read_fn = "OnCommand"
    /\ \E fd \in Slots : cb[fd].read_fn = "OnRead"

\* a later connection has been registered on descriptor numbers that an
\* earlier pair, torn down since, had used
C33_WitnessReuse ==
    /\ last.fn = "OnConnect"
    /\ last.k = "ok"
    /\ ~crashed
    /\ \E e \in evicted :
          /\ Registered(e.fd)
          /\ Registered(e.peer)
          /\ cb[e.fd].peer_fd = e.peer

\* the route at index i is bound to the accepted client descriptor of an
\* established pair
C34_Bound(i) ==
    LET fd == route[i].source_fd
    IN  /\ fd \in Slots
        /\ Registered(fd)
        /\ matched[fd] = route[i].source_ip
        /\ cb[fd].peer_fd \in Slots
        /\ Registered(cb[fd].peer_fd)
        /\ cb[cb[fd].peer_fd].peer_fd = fd

\* C34: every route's source_fd is none or the accepted client descriptor of
\* a currently established pair (registered with OnRead and OnWrite, with a
\* registered peer) whose connection matched that route; no two routes hold
\* the same source_fd other than none; and GetRoute(int) resolves no
\* descriptor that is closed or that belongs to no pair.
C34_NoDanglingRouteBinding ==
    /\ \A i \in 1..Len(route) : route[i].source_fd = NoFd \/ C34_Bound(i)
    /\ \A i, j \in 1..Len(route) :
          (route[i].source_fd # NoFd /\ route[i].source_fd = route[j].source_fd) =>
              i = j
    /\ \A fd \in Slots :
          GetRouteFd(route, fd) # 0 =>
              /\ fd \in open
              /\ PairSlot(fd)
              /\ matched[fd] = route[GetRouteFd(route, fd)].source_ip

\* a pair has just been torn down by EOF and its route is unbound while
\* another route is bound to a pair that is still established
C34_Witness ==
    /\ last.fn = "OnRead"
    /\ last.k = "eof"
    /\ \E i, j \in 1..Len(route) :
          /\ route[i].source_fd = NoFd
          /\ matched[last.fd] = "" /\ last.fd \notin open
          /\ route[j].source_fd # NoFd

\* an OnCommand step that executes the text it has accumulated
C35_Executes == last'.fn = "OnCommand" /\ trfds' # trfds /\ executed' # executed

C35_Step ==
    /\ \A fd \in Slots : cb'[fd].read_fn = "OnCommand" => cb'[fd].len \in 0..RW_BUFSIZE
    /\ C35_Executes => Attached = {}

\* C35: for a command of any length, RW_BUFSIZE bytes or more included, the
\* len of the FIFO's slot stays in 0..RW_BUFSIZE, and OnCommand executes the
\* accumulated text only when no operator that wrote it still has the FIFO
\* open: a full buffer does not make OnCommand execute early.
C35_CommandBufferBound == [][C35_Step]_vars

\* the part that holds: len of the FIFO's slot stays in 0..RW_BUFSIZE
C35_LenInBounds ==
    \A fd \in Slots : cb[fd].read_fn = "OnCommand" => cb[fd].len \in 0..RW_BUFSIZE

\* OnCommand has executed the first RW_BUFSIZE bytes of a longer command
\* whose writer, the only one, has not closed the FIFO
C35_Early ==
    /\ last.fn = "OnCommand"
    /\ last.k = "eof"
    /\ executed = << LongCmd >>
    /\ wtr[1].cmd = LongCmd \o << Junk >>
    /\ wtr[1].pc = "written"
    /\ wtr[1].fifo = "old"
    /\ wtr[2].pc = "idle"

\* both operators write a command shorter than the command buffer
C36_Short == \A w \in Writers : Len(wtr[w].cmd) < RW_BUFSIZE

\* nothing is left for OnCommand to read or to execute
C36_Quiet ==
    /\ pc = "loop"
    /\ ~crashed
    /\ keep_running
    /\ Batch = {}
    /\ pipe.data = << >>
    /\ ~pipe.eof
    /\ \A fd \in Slots : cb[fd].read_fn = "OnCommand" => cb[fd].len = 0

C36_Times(w) == Cardinality({i \in 1..Len(executed) : executed[i] = wtr[w].cmd})

\* C36: two operators each open the FIFO, write one complete command and
\* close, in any interleaving with the steps of OnCommand.  Every text
\* OnCommand executes is the command of one operator, never two commands
\* concatenated; no command is executed twice; no command is written into a
\* FIFO that the proxy closes and unlinks without reading it; and once both
\* operators have closed and nothing is left to read, each command has been
\* executed.
C36_ConcurrentOperators ==
    C36_Short =>
        /\ \A i \in 1..Len(executed) : \E w \in Writers : executed[i] = wtr[w].cmd
        /\ \A w \in Writers : C36_Times(w) <= 1
        /\ \A w \in Writers : ~wtr[w].lost
        /\ (C36_Quiet /\ \A w \in Writers : wtr[w].pc = "closed") =>
               \A w \in Writers : C36_Times(w) = 1

\* the two commands have been executed as one text
C36_Concatenated ==
    /\ C36_Short
    /\ \A w \in Writers : wtr[w].pc = "closed" /\ ~wtr[w].lost
    /\ executed \in {<< wtr[1].cmd \o wtr[2].cmd >>, << wtr[2].cmd \o wtr[1].cmd >>}

\* one command has been executed and the other, written while OnCommand was
\* executing it, is in the FIFO that OnCommand has closed and unlinked
C36_Dropped ==
    /\ C36_Short
    /\ C36_Quiet
    /\ executed = << wtr[1].cmd >>
    /\ wtr[2].pc = "closed"
    /\ wtr[2].lost

\* the constructor of instance p returns, refused because the lock is held
C37_Refused(p) ==
    /\ inst[p].pc = "ctor"
    /\ inst'[p].pc = "listen"
    /\ C19_Lost(p)

C37_Step ==
    \A p \in Procs :
        C37_Refused(p) =>
            /\ inst'[p].fifo = "none"
            /\ ~inst'[p].keep_running
            /\ \A q \in Procs \ {p} : inst'[q] = inst[q]

\* C37: the constructor checks the lock before it unlinks, creates or opens
\* the FIFO: an instance that is refused because the lock is held has no
\* FIFO and will not open a listening socket, and the FIFO of the other
\* instance stays the one at the FIFO path, so that instance keeps
\* receiving commands.
C37_RefusedHasNoSideEffect == [][C37_Step]_vars

\* one instance is refused while the other listens with its FIFO at the path
C37_Witness ==
    \E p, q \in Procs :
        /\ C19_Lost(p)
        /\ inst[p].pc \in {"listen", "exited"}
        /\ inst[p].fifo = "none"
        /\ C19_Listening(q)
        /\ inst[q].fifo = "path"

\* an instance that could not check the lock has unlinked the FIFO of the
\* instance that listens
C37_Unlinked ==
    \E p, q \in Procs :
        /\ inst[p].lock \in {"noopen", "ENOLCK"}
        /\ inst[p].pc \in {"listen", "exited"}
        /\ C19_Listening(q)
        /\ inst[q].fifo = "unlinked"

\* OnRead(X) has torn the pair down: read() on X returned 0 or failed with an
\* error other than EAGAIN/EINTR
C38_TornDown ==
    /\ last'.fn = "OnRead"
    /\ trfds' # trfds
    /\ last'.k \in {"eof", "err"}
    /\ last'.peer >= 0

C38_Step ==
    C38_TornDown =>
        LET X == last'.fd
            P == last'.peer
        IN  /\ cb[P].len = 0
            /\ Len(wr[P]) = rd[X]
            /\ \A k \in 1..rd[X] : wr[P][k] = Byte(X, k)

\* C38: OnRead(X) observes EOF or an error on X only while no byte read
\* from X is staged in the peer's buffer: when a pair is torn down by EOF
\* or an error read on X, every byte read from X has been written to the
\* peer, in order, and the teardown discards none of them.
C38_EofAfterData == [][C38_Step]_vars

\* the only pair so far has forwarded the whole payload and has then been
\* torn down by EOF, with no byte discarded
C38_Witness ==
    /\ last.fn = "OnRead"
    /\ last.k = "eof"
    /\ last.peer >= 0
    /\ last.fd \notin open
    /\ quota.acc = 1
    /\ quota.data = 0
    /\ dropped = 0

\* the loop of CallbackSelect invokes a handler for the bit it has reached
C39_Invokes ==
    /\ last'.fn \in {"OnRead", "OnWrite", "OnConnect", "OnCommand"}
    /\ trfds' # trfds \/ twfds' # twfds

\* C39: within one batch a handler is invoked only for a registration that
\* existed when select() returned: a descriptor number that was closed and
\* registered again during the batch (a pair accepted by OnConnect, the FIFO
\* reopened by OnCommand) does not have its handlers invoked for the bits
\* select() reported for the earlier descriptor of that number.
C39_SnapshotDispatch == [][C39_Invokes => last'.fd \notin fresh]_vars

\* the loop has reached a bit select() reported for a descriptor number that
\* was registered again since, and the bit is set in the live interest set
C39_Stale ==
    /\ InBatch
    /\ NextFd \in fresh
    /\ IF ReadTurn THEN NextFd \in rfds ELSE NextFd \in wfds
    /\ cb[NextFd].read_fn = "OnRead"
    /\ \E e \in evicted : e.fd = NextFd
    /\ cb[FifoFd].read_fn = "OnCommand"

\* the pair is gone: both descriptors closed and unregistered, and no route
\* bound to the client
C40_TornDown ==
    /\ \A fd \in PairFds :
          /\ fd \notin open
          /\ fd \notin rfds
          /\ fd \notin wfds
          /\ cb[fd] = Callback
    /\ \A i \in 1..Len(route) : route[i].source_fd # SourceFd

\* C40: when the connection to the target, reported in progress by
\* connect(), has failed, then under the fair kernel and while the reactor
\* keeps running the pair is eventually torn down: client and target are
\* closed and unregistered and the route's source_fd is cleared.
C40_AsyncConnectFailure ==
    (TargetFd \in refused) ~> (C40_TornDown \/ C22_Stopped)

\* the pair has been torn down by the error read on the target whose
\* connection had failed
C40_Witness ==
    /\ TargetFd \in refused
    /\ last.fn = "OnRead"
    /\ last.fd = TargetFd
    /\ last.k = "err"
    /\ C40_TornDown
    /\ ~C22_Stopped
====
